---- MODULE Spec2Model ----
(***************************************************************************)
(* A model of the digsigclt synchronisation agent: the non-blocking Lock   *)
(* of lock.py, the update pipeline of sync.py (stage, load manifest,       *)
(* merge, strip files, strip tree) and the POST and GET /manifest handlers *)
(* of request_handler/request_handler.py, served by concurrent handler     *)
(* threads over one shared live directory.                                 *)
(*                                                                         *)
(* A directory tree is a function from relative paths (sequences of name   *)
(* segments) to node values: DIR for a directory, a positive number for a  *)
(* regular file with that content.  The root itself is not an entry.       *)
(***************************************************************************)
EXTENDS Naturals, Sequences, FiniteSets, TLC

\* ---------------------------------------------------------------- bounds

\* Handler threads serving requests concurrently.
NumHandlers == 2

\* Successful synchronisations (values of datetime.now()) in one run.
MaxSyncs == 2

\* ------------------------------------------------------------- constants

Handlers == 1..NumHandlers

\* sync.py: MANIFEST = "manifest.json"
MANIFEST == "manifest.json"

\* common.py: LOGFILE = Path('synclog.txt')
LOGFILE == "synclog.txt"

\* Names for which str.startswith(".") is true.
DotNames == {".h"}

\* Node value of a directory; a file's value is its content, a number > 0.
DIR == 0

\* File contents: what the live tree holds at start, what archives deliver.
OldData == 1
NewData == 2

Root == << >>
EmptyTree == << >>

\* ------------------------------------------------------- pathlib on trees

\* Path.parent
Parent(p) == SubSeq(p, 1, Len(p) - 1)

\* Path.name
Name(p) == p[Len(p)]

\* Path.stem.startswith("."): the stem keeps the leading dot of the name.
stem_startswith_dot(p) == Name(p) \in DotNames

\* q lies under p (or is p).
IsUnder(q, p) == Len(q) >= Len(p) /\ SubSeq(q, 1, Len(p)) = p

\* Path.is_dir
is_dir(t, p) == p = Root \/ (p \in DOMAIN t /\ t[p] = DIR)

\* Path.is_file
is_file(t, p) == p \in DOMAIN t /\ t[p] # DIR

\* Path.iterdir
iterdir(t, d) == {p \in DOMAIN t : Len(p) = Len(d) + 1 /\ Parent(p) = d}

\* t with the entry p set to v
Put(t, p, v) == [q \in DOMAIN t \cup {p} |-> IF q = p THEN v ELSE t[q]]

\* Path.unlink / Path.rmdir: t without the entry p
Remove(t, p) == [q \in DOMAIN t \ {p} |-> t[q]]

\* Every entry's parent is a directory of the tree.
WellFormed(t) == \A p \in DOMAIN t : Len(p) >= 1 /\ is_dir(t, Parent(p))

\* ------------------------------------------------------------ sync.py

\* A get_files that lists the log file like any other file.
RECURSIVE get_files_with_log(_, _, _)
get_files_with_log(t, directory, basedir) ==
    UNION { IF basedir /\ stem_startswith_dot(inode) THEN {}
            ELSE IF is_dir(t, inode) THEN get_files_with_log(t, inode, FALSE)
            ELSE IF is_file(t, inode) THEN {inode}
            ELSE {}
          : inode \in iterdir(t, directory) }

\* get_files: the regular files under directory, skipping the dot entries of
\* the base directory and every file whose path relative to the directory
\* being listed equals LOGFILE.
RECURSIVE get_files(_, _, _)
get_files(t, directory, basedir) ==
    UNION { IF basedir /\ stem_startswith_dot(inode) THEN {}
            ELSE IF is_dir(t, inode) THEN get_files(t, inode, FALSE)
            ELSE IF is_file(t, inode) /\ Name(inode) # LOGFILE THEN {inode}
            ELSE {}
          : inode \in iterdir(t, directory) }

\* A get_orphans that does not look at the manifest.
get_orphans_all(t, manifest) == get_files(t, Root, TRUE)

\* get_orphans: the files within the directory that the manifest lacks.
get_orphans(t, manifest) == {path \in get_files(t, Root, TRUE) : path \notin manifest}

\* json.loads of a file's text.  Data files are not JSON (valid = FALSE).  A
\* JSON document is a list or not; an item of a list either unpacks into
\* strings (strs: a list of path segments, what Path(*parts) accepts) or does
\* not (a [segments, digest] pair, a number: Path(*parts) raises TypeError).
Docs == <<
    [islist |-> FALSE, items |-> {}],
    [islist |-> TRUE,  items |-> {[strs |-> FALSE, parts |-> <<"a", "x">>]}],
    [islist |-> TRUE,  items |-> {}],
    [islist |-> TRUE,  items |-> {[strs |-> TRUE, parts |-> <<"a">>]}],
    [islist |-> TRUE,  items |-> {[strs |-> TRUE, parts |-> <<"b">>]}],
    [islist |-> TRUE,  items |-> {[strs |-> TRUE, parts |-> <<"a">>],
                                  [strs |-> TRUE, parts |-> <<"b">>]}],
    [islist |-> TRUE,  items |-> {[strs |-> TRUE, parts |-> <<"a", "x">>]}],
    [islist |-> TRUE,  items |-> {[strs |-> TRUE, parts |-> <<"a", "x">>],
                                  [strs |-> TRUE, parts |-> <<"b">>]}]
>>

\* The content of a file holding the i-th document.
Text(i) == NewData + i

Texts == {Text(i) : i \in DOMAIN Docs}

valid_json(text) == text \in Texts

loads(text) == Docs[text - NewData]

\* datetime.isoformat, as the content of the log file.
isoformat(t) == NewData + Len(Docs) + 1 + t

\* load_manifest: what reading the manifest of the staging directory does.
\*   "ManifestError"  no manifest file, not JSON, or not a list
\*   "TypeError"      a list with an item Path(*parts) rejects; raised after
\*                    the unlink
\*   "IsADirectoryError"  the manifest path is a directory (open raises)
\*   "ok"             the file is unlinked and the set of paths returned
load_manifest_outcome(t) ==
    LET path == <<MANIFEST>> IN
    IF path \notin DOMAIN t THEN "ManifestError"
    ELSE IF t[path] = DIR THEN "IsADirectoryError"
    ELSE IF ~valid_json(t[path]) THEN "ManifestError"
    ELSE IF ~loads(t[path]).islist THEN "ManifestError"
    ELSE IF \E parts \in loads(t[path]).items : ~parts.strs THEN "TypeError"
    ELSE "ok"

\* A load_manifest that leaves the manifest file in place.
load_manifest_tree_kept(t) == t

\* load_manifest: the staging tree it leaves (the file is unlinked once the
\* text has been parsed as a list).
load_manifest_tree(t) ==
    IF load_manifest_outcome(t) \in {"ok", "TypeError"}
    THEN Remove(t, <<MANIFEST>>) ELSE t

\* load_manifest: {Path(*parts) for parts in manifest}
load_manifest_paths(t) == {parts.parts : parts \in loads(t[<<MANIFEST>>]).items}

\* ------------------------------------------------------------- inputs

\* Trees an archive can deliver.
ArchivePaths == {<<"a">>, <<"a", "x">>, <<"b">>, <<MANIFEST>>}

ArchiveValues(p) ==
    IF p = <<MANIFEST>> THEN Texts \cup {NewData}
    ELSE IF p = <<"a">> THEN {DIR, NewData}
    ELSE {NewData}

ArchiveTrees ==
    {t \in UNION {[D -> Texts \cup {DIR, NewData}] : D \in SUBSET ArchivePaths} :
        WellFormed(t) /\ \A p \in DOMAIN t : t[p] \in ArchiveValues(p)}

\* Request bodies: not an xz stream at all (tar_open raises ReadError), an
\* xz stream cut short (extractall raises EOFError or ReadError after a part
\* of the members was written), or a complete archive.
Archives ==
    {[kind |-> "notxz", tree |-> EmptyTree]}
    \cup {[kind |-> "truncated", tree |-> t] :
             t \in {u \in ArchiveTrees : <<MANIFEST>> \in DOMAIN u /\ u[<<MANIFEST>>] = Text(6)}}
    \cup {[kind |-> "ok", tree |-> t] : t \in ArchiveTrees}

NoArchive == [kind |-> "none", tree |-> EmptyTree]

\* Live directories the agent can be started on.
LivePaths == {<<"a">>, <<"a", "x">>, <<"b">>, <<".h">>, <<LOGFILE>>}

LiveValues(p) ==
    IF p = <<LOGFILE>> THEN {isoformat(0)}
    ELSE IF p = <<"a">> THEN {DIR, OldData}
    ELSE {OldData}

LiveTrees ==
    {t \in UNION {[D -> {DIR, OldData, isoformat(0)}] : D \in SUBSET LivePaths} :
        WellFormed(t) /\ \A p \in DOMAIN t : t[p] \in LiveValues(p)}

\* ---------------------------------------------------------------- state

VARIABLES
    lock,       \* threading.Lock of LOCK: TRUE while acquired
    live,       \* the live directory (cls.directory)
    last_sync,  \* HTTPRequestHandler.last_sync: 0 for None, else a timestamp
    clock,      \* the last value datetime.now() returned
    pc,         \* per handler thread: where it stands in its handler
    body,       \* per thread: the request body (rfile) of its POST
    stage,      \* per thread: its TemporaryDirectory, [exists, tree]
    manifest,   \* per thread: the set of paths load_manifest returned
    todo,       \* per thread: entries the running loop has not yet visited
    cur,        \* per thread: the directory copy_directory is iterating
    resp,       \* per thread: the status code sent, 0 while none was sent
    walk,       \* per thread: the pairs its manifest walk produced
    errlog,     \* per thread: LOGGER.error was called in its update (a denied
                \* copy, unlink or mkdir)
    pre,        \* per thread: the live tree and last_sync when its POST
                \* acquired the lock
    warned,     \* per thread: strip_tree logged "Could not remove directory"
    rootdir,    \* the live directory itself exists
    prev,       \* the body of the last POST if its update returned True, and
                \* whether that update ran without a denied operation
    req,        \* per thread: the request line (command, path) and, for a
                \* PUT, the body of the request it is handling
    content,    \* per thread: the ResponseContent send_content wrote for a
                \* PUT or a GET other than /manifest (payload, content type)
    invoked,    \* per thread: do_PUT called the function of the command, what
                \* the body of its with Response block raised, and the
                \* Response it returned
    cf,         \* a call of common.copy_file: its arguments, its local size,
                \* the bytes left in src, the sizes of its reads, the bytes
                \* written to dst
    host,       \* the system at the last reboot command: os.name, what
                \* loginctl listed, the lock file and the process of pacman,
                \* and whether the reboot command was run
    lockfile,   \* stand-alone client: LOCK_FILE exists in the temp directory
    sync_thread,\* stand-alone client: HTTPRequestHandler.sync_thread
    srv,        \* stand-alone client: the request its HTTP server is handling
    oneshot,    \* stand-alone client: a process running sync() in the same
                \* temp directory
    args        \* stand-alone client: the command line arguments

vars == <<lock, live, last_sync, clock, pc, body, stage, manifest, todo, cur, resp, walk, errlog, pre,
          warned, rootdir, prev, req, content, invoked, cf,
          host, lockfile, sync_thread, srv, oneshot, args>>

NoStage == [exists |-> FALSE, tree |-> EmptyTree]

NoPre == [tree |-> EmptyTree, last_sync |-> 0]

NoPrev == [body |-> NoArchive, clean |-> FALSE]

\* No call of common.copy_file is under way.
NoCopy == [pc |-> "none", total |-> 0, chunk_size |-> 1, size |-> 0, src |-> 0,
           reads |-> <<>>, dst |-> 0]

None == "None"

\* No reboot command has looked at the system yet.
NoHost == [name |-> "posix", loginctl |-> "ok", sessions |-> {}, db_lck |-> FALSE,
           pacman |-> FALSE, issued |-> FALSE]

\* HTTPRequestHandler.sync_thread = None: no thread was ever started.
NoThread == << >>

\* The HTTP server of the stand-alone client waits for a request.
NoServe == [pc |-> "idle", kind |-> None, command |-> None, status_code |-> 0,
            created |-> FALSE, pending |-> FALSE, started |-> FALSE]

\* No process runs sync().
NoOneShot == [state |-> "idle", max_retries |-> 0, retries |-> 0, attempts |-> 0,
              data |-> None, result |-> None, error |-> None]

\* The arguments of a run that is not the stand-alone client.
NoArgs == [max_retries |-> 0]

\* The body of a PUT: what json.loads makes of it (kind), the value under
\* the key 'command' and whether the remaining keys fit the parameters of
\* the function.
NoPut == [kind |-> None, command |-> None, args |-> None]

NoRequest == [command |-> "", path |-> "", put |-> NoPut]

\* A payload: its Python type, its text, the lastSync entry of a sysinfo
\* dict (0: null) and the conversions applied to it so far.
Payload(type, text, lastSync) ==
    [type |-> type, text |-> text, lastSync |-> lastSync, enc |-> <<>>]

NoContent == [payload |-> Payload(None, "", 0), content_type |-> None]

\* rpc/response.py, Response: payload, content_type and status_code, and
\* raised: an exception __exit__ did not handle leaves the function.
NoResponse ==
    [payload |-> Payload(None, "", 0), content_type |-> None, status_code |-> 0,
     raised |-> None]

Init ==
    /\ lock = FALSE
    /\ live \in LiveTrees
    /\ last_sync = 0
    /\ clock = 0
    /\ pc = [p \in Handlers |-> "idle"]
    /\ body = [p \in Handlers |-> NoArchive]
    /\ stage = [p \in Handlers |-> NoStage]
    /\ manifest = [p \in Handlers |-> {}]
    /\ todo = [p \in Handlers |-> {}]
    /\ cur = [p \in Handlers |-> Root]
    /\ resp = [p \in Handlers |-> 0]
    /\ walk = [p \in Handlers |-> {}]
    /\ errlog = [p \in Handlers |-> FALSE]
    /\ pre = [p \in Handlers |-> NoPre]
    /\ warned = [p \in Handlers |-> FALSE]
    /\ rootdir = TRUE
    /\ prev = NoPrev
    /\ req = [p \in Handlers |-> NoRequest]
    /\ content = [p \in Handlers |-> NoContent]
    /\ invoked = [p \in Handlers |-> [called |-> FALSE, typ |-> None, response |-> NoResponse]]
    /\ cf = NoCopy
    /\ host = NoHost
    /\ lockfile = FALSE
    /\ sync_thread = NoThread
    /\ srv = NoServe
    /\ oneshot = NoOneShot
    /\ args = NoArgs

\* --------------------------------------------------------------- lock.py

\* An acquire that succeeds whatever the state of the lock.
acquire_blind(held) == TRUE

\* threading.Lock.acquire(blocking=False): succeeds iff the lock is free.
acquire(held) == ~held

\* An __exit__ that forgets the release.
LockExit_forgotten == lock' = lock

\* Lock.__exit__: self.lock.release()
LockExit == lock' = FALSE

\* ------------------------------------------------------------- do_POST

\* Where a POST stands that may still record a synchronisation.
PostPcs == {"read_body", "mkdtemp", "tar_open", "extractall", "load_manifest",
            "copy_directory", "strip_files", "strip_tree", "log_sync"}

\* A POST arrives at an idle handler thread.  do_POST: with LOCK runs
\* update_digsig_data when __enter__ got the lock; when it raised Locked,
\* the except branch answers 503.  (The guard on the clock bounds the number
\* of synchronisations of a run.)  do_POST does not look at the path of the
\* request: a POST to any path is handled alike.
DoPost(p, paths) ==
    /\ pc[p] = "idle"
    /\ \E path \in paths :
          req' = [req EXCEPT ![p] = [command |-> "POST", path |-> path, put |-> NoPut]]
    /\ clock + Cardinality({q \in Handlers : pc[q] \in PostPcs}) < MaxSyncs
    /\ IF acquire(lock)
       THEN /\ lock' = TRUE
            /\ pc' = [pc EXCEPT ![p] = "read_body"]
            /\ pre' = [pre EXCEPT ![p] = [tree |-> live, last_sync |-> last_sync]]
            /\ resp' = resp
       ELSE /\ lock' = lock
            /\ pc' = [pc EXCEPT ![p] = "end"]
            /\ pre' = pre
            /\ resp' = [resp EXCEPT ![p] = 503]
    /\ UNCHANGED <<live, last_sync, clock, body, stage, manifest, todo, cur, walk, errlog, warned, rootdir, prev, content, invoked, cf, host, lockfile, sync_thread, srv, oneshot, args>>

\* update_digsig_data: the request body is copied into a temporary file.
ReadBody(p, bodies) ==
    /\ pc[p] = "read_body"
    /\ \E a \in bodies : body' = [body EXCEPT ![p] = a]
    /\ pc' = [pc EXCEPT ![p] = "mkdtemp"]
    /\ UNCHANGED <<lock, live, last_sync, clock, stage, manifest, todo, cur, resp, walk, errlog, pre, warned, rootdir, prev, req, content, invoked, cf, host, lockfile, sync_thread, srv, oneshot, args>>

\* update: with TemporaryDirectory() as temp_dir
MkTemp(p) ==
    /\ pc[p] = "mkdtemp"
    /\ stage' = [stage EXCEPT ![p] = [exists |-> TRUE, tree |-> EmptyTree]]
    /\ pc' = [pc EXCEPT ![p] = "tar_open"]
    /\ UNCHANGED <<lock, live, last_sync, clock, body, manifest, todo, cur, resp, walk, errlog, pre, warned, rootdir, prev, req, content, invoked, cf, host, lockfile, sync_thread, srv, oneshot, args>>

\* update: tar_open(mode="r:xz", ...) stands outside the try block: for a
\* body that is no xz stream it raises ReadError, which leaves update (the
\* staging directory is cleaned up on the way) and the handler.
TarOpen(p) ==
    /\ pc[p] = "tar_open"
    /\ IF body[p].kind = "notxz"
       THEN /\ stage' = [stage EXCEPT ![p] = NoStage]
            /\ pc' = [pc EXCEPT ![p] = "raised"]
       ELSE /\ stage' = stage
            /\ pc' = [pc EXCEPT ![p] = "extractall"]
    /\ UNCHANGED <<lock, live, last_sync, clock, body, manifest, todo, cur, resp, walk, errlog, pre, warned, rootdir, prev, req, content, invoked, cf, host, lockfile, sync_thread, srv, oneshot, args>>

\* The members tar.extractall has written when the stream ends early: any
\* part of the archive's tree that is itself a tree.
Partial(t) ==
    {s \in UNION {[D -> {t[q] : q \in DOMAIN t}] : D \in SUBSET DOMAIN t} :
        WellFormed(s) /\ \A q \in DOMAIN s : s[q] = t[q]}

\* update: tar.extractall(path=temp_dir); EOFError and ReadError are caught
\* and make update return False.
ExtractAll(p) ==
    /\ pc[p] = "extractall"
    /\ IF body[p].kind = "truncated"
       THEN /\ \E s \in Partial(body[p].tree) :
                 stage' = [stage EXCEPT ![p] = [exists |-> TRUE, tree |-> s]]
            /\ pc' = [pc EXCEPT ![p] = "extract_failed"]
       ELSE /\ stage' = [stage EXCEPT ![p] = [exists |-> TRUE, tree |-> body[p].tree]]
            /\ pc' = [pc EXCEPT ![p] = "load_manifest"]
    /\ UNCHANGED <<lock, live, last_sync, clock, body, manifest, todo, cur, resp, walk, errlog, pre, warned, rootdir, prev, req, content, invoked, cf, host, lockfile, sync_thread, srv, oneshot, args>>

\* An except branch of extractall that goes on with what was extracted.
ExtractFailed_resume(p) ==
    /\ pc[p] = "extract_failed"
    /\ pc' = [pc EXCEPT ![p] = "load_manifest"]
    /\ UNCHANGED <<lock, live, last_sync, clock, body, stage, manifest, todo, cur, resp, walk, errlog, pre, warned, rootdir, prev, req, content, invoked, cf, host, lockfile, sync_thread, srv, oneshot, args>>

\* A return False that leaves the staging directory behind.
ExtractFailed_leak(p) ==
    /\ pc[p] = "extract_failed"
    /\ pc' = [pc EXCEPT ![p] = "send_500"]
    /\ UNCHANGED <<lock, live, last_sync, clock, body, stage, manifest, todo, cur, resp, walk, errlog, pre, warned, rootdir, prev, req, content, invoked, cf, host, lockfile, sync_thread, srv, oneshot, args>>

\* update: return False from the except branch of extractall; leaving the
\* with block removes the staging directory.
ExtractFailed(p) ==
    /\ pc[p] = "extract_failed"
    /\ stage' = [stage EXCEPT ![p] = NoStage]
    /\ pc' = [pc EXCEPT ![p] = "send_500"]
    /\ UNCHANGED <<lock, live, last_sync, clock, body, manifest, todo, cur, resp, walk, errlog, pre, warned, rootdir, prev, req, content, invoked, cf, host, lockfile, sync_thread, srv, oneshot, args>>

\* update: manifest = load_manifest(temp_dir); ManifestError makes update
\* return False, any other exception leaves update.
LoadManifest(p) ==
    /\ pc[p] = "load_manifest"
    /\ LET out == load_manifest_outcome(stage[p].tree) IN
       IF out = "ok"
       THEN /\ stage' = [stage EXCEPT ![p].tree = load_manifest_tree(stage[p].tree)]
            /\ manifest' = [manifest EXCEPT ![p] = load_manifest_paths(stage[p].tree)]
            /\ todo' = [todo EXCEPT ![p] = DOMAIN load_manifest_tree(stage[p].tree)]
            /\ pc' = [pc EXCEPT ![p] = "copy_directory"]
       ELSE /\ stage' = [stage EXCEPT ![p] = NoStage]
            /\ manifest' = manifest
            /\ todo' = todo
            /\ pc' = [pc EXCEPT ![p] = IF out = "ManifestError" THEN "send_500" ELSE "raised"]
    /\ cur' = [cur EXCEPT ![p] = Root]
    /\ UNCHANGED <<lock, live, last_sync, clock, body, resp, walk, errlog, pre, warned, rootdir, prev, req, content, invoked, cf, host, lockfile, sync_thread, srv, oneshot, args>>

\* ------------------------------------------------------ update: the merge

\* The entries of the directory being iterated that the loop of
\* copy_directory has not yet visited.
Pending(p) == {e \in todo[p] : Parent(e) = cur[p]}

\* A copy_file that writes other bytes than it read.
copy_file_garbled(t, src_data, dst) == Put(t, dst, OldData)

\* A copy_file that opens dst for appending.
copy_file_append(t, src_data, dst) ==
    Put(t, dst, IF is_file(t, dst) THEN t[dst] + src_data ELSE src_data)

\* copy_file: dst is opened "wb" and receives the chunks of src.
copy_file(t, src_data, dst) == Put(t, dst, src_data)

\* A copy_subfile that lets PermissionError pass on to update, which then
\* returns False.
copy_subfile_raises(denied) == IF denied THEN "send_500" ELSE "copy_directory"

\* copy_subfile: where the update stands after the call.  The except clause
\* swallows PermissionError, so the loop of copy_directory goes on either way.
copy_subfile_then(denied) == "copy_directory"

\* copy_directory, an entry that is a file: copy_subfile.  Opening a
\* destination that is a directory raises IsADirectoryError, which nothing
\* catches; PermissionError is caught and logged, and the loop goes on.
CopySubfile(p) ==
    /\ pc[p] = "copy_directory"
    /\ \E e \in Pending(p) :
        /\ is_file(stage[p].tree, e)
        /\ IF is_dir(live, e)
           THEN /\ live' = live
                /\ stage' = [stage EXCEPT ![p] = NoStage]
                /\ pc' = [pc EXCEPT ![p] = "raised"]
                /\ todo' = todo
                /\ errlog' = errlog
           ELSE /\ \E PermissionError \in BOOLEAN :
                     /\ live' = IF PermissionError THEN live
                                ELSE copy_file(live, stage[p].tree[e], e)
                     /\ errlog' = [errlog EXCEPT ![p] = @ \/ PermissionError]
                     /\ pc' = [pc EXCEPT ![p] = copy_subfile_then(PermissionError)]
                     /\ stage' = IF copy_subfile_then(PermissionError) = "copy_directory"
                                 THEN stage ELSE [stage EXCEPT ![p] = NoStage]
                /\ todo' = [todo EXCEPT ![p] = @ \ {e}]
    /\ UNCHANGED <<lock, last_sync, clock, body, manifest, cur, resp, walk, pre, warned, rootdir, prev, req, content, invoked, cf, host, lockfile, sync_thread, srv, oneshot, args>>

\* copy_directory, an entry that is a directory: copy_subdir.  A file in
\* the way is unlinked (PermissionError: logged, the subdirectory is
\* skipped); a missing directory is made (PermissionError leaves
\* copy_directory and makes update return False); then the subdirectory is
\* iterated.
CopySubdir(p) ==
    /\ pc[p] = "copy_directory"
    /\ \E e \in Pending(p), unlink_denied \in BOOLEAN, mkdir_denied \in BOOLEAN :
        /\ is_dir(stage[p].tree, e)
        /\ unlink_denied => is_file(live, e)
        /\ mkdir_denied => ~unlink_denied /\ ~is_dir(live, e)
        /\ LET unlinked == IF is_file(live, e) /\ ~unlink_denied
                           THEN Remove(live, e) ELSE live
           IN
           IF unlink_denied
           THEN /\ live' = live
                /\ todo' = [todo EXCEPT ![p] = {q \in @ : ~IsUnder(q, e)}]
                /\ errlog' = [errlog EXCEPT ![p] = TRUE]
                /\ UNCHANGED <<cur, stage, pc>>
           ELSE IF mkdir_denied
           THEN /\ live' = unlinked
                /\ stage' = [stage EXCEPT ![p] = NoStage]
                /\ pc' = [pc EXCEPT ![p] = "send_500"]
                /\ errlog' = [errlog EXCEPT ![p] = TRUE]
                /\ UNCHANGED <<todo, cur>>
           ELSE /\ live' = IF is_dir(unlinked, e) THEN unlinked ELSE Put(unlinked, e, DIR)
                /\ todo' = [todo EXCEPT ![p] = @ \ {e}]
                /\ cur' = [cur EXCEPT ![p] = e]
                /\ UNCHANGED <<stage, pc, errlog>>
    /\ UNCHANGED <<lock, last_sync, clock, body, manifest, resp, walk, pre, warned, rootdir, prev, req, content, invoked, cf, host, lockfile, sync_thread, srv, oneshot, args>>

\* copy_directory returns once its loop is through: to the loop of the
\* parent directory, or, at the top, to update, which leaves the with block
\* (the staging directory is removed) and starts strip_files.
CopyReturn(p) ==
    /\ pc[p] = "copy_directory"
    /\ Pending(p) = {}
    /\ IF cur[p] # Root
       THEN /\ cur' = [cur EXCEPT ![p] = Parent(cur[p])]
            /\ UNCHANGED <<stage, pc, todo>>
       ELSE /\ stage' = [stage EXCEPT ![p] = NoStage]
            /\ pc' = [pc EXCEPT ![p] = "strip_files"]
            /\ todo' = [todo EXCEPT ![p] = get_orphans(live, manifest[p])]
            /\ cur' = cur
    /\ UNCHANGED <<lock, live, last_sync, clock, body, manifest, resp, walk, errlog, pre, warned, rootdir, prev, req, content, invoked, cf, host, lockfile, sync_thread, srv, oneshot, args>>

\* ------------------------------------------------------ update: the prune

\* strip_files: every orphan is unlinked; PermissionError is logged and the
\* loop goes on.  After the last orphan strip_tree starts: it is called for
\* the base directory and for every directory below it, except those at or
\* below a dot entry of the base directory.
StripFiles(p) ==
    /\ pc[p] = "strip_files"
    /\ IF todo[p] = {}
       THEN /\ pc' = [pc EXCEPT ![p] = "strip_tree"]
            /\ todo' = [todo EXCEPT ![p] =
                   {Root} \cup
                   {d \in DOMAIN live : live[d] = DIR /\ ~stem_startswith_dot(<<d[1]>>)}]
            /\ UNCHANGED <<live, errlog>>
       ELSE /\ \E path \in todo[p], PermissionError \in BOOLEAN :
                 /\ live' = IF PermissionError \/ path \notin DOMAIN live
                            THEN live ELSE Remove(live, path)
                 /\ errlog' = [errlog EXCEPT ![p] = @ \/ PermissionError]
                 /\ todo' = [todo EXCEPT ![p] = @ \ {path}]
            /\ pc' = pc
    /\ UNCHANGED <<lock, last_sync, clock, body, stage, manifest, cur, resp, walk, pre, warned, rootdir, prev, req, content, invoked, cf, host, lockfile, sync_thread, srv, oneshot, args>>

\* A strip_tree that tries to remove whatever directory is empty.
strip_tree_returns_nonempty(t, directory) == iterdir(t, directory) # {}

\* strip_tree: if basedir or any(directory.iterdir()): return
strip_tree_returns(t, directory) == directory = Root \/ iterdir(t, directory) # {}

\* An update that returns False once strip_tree is through.
StripTree_fails(p) ==
    /\ pc[p] = "strip_tree"
    /\ IF todo[p] = {}
       THEN /\ pc' = [pc EXCEPT ![p] = "send_500"]
            /\ UNCHANGED <<live, todo, warned, rootdir>>
       ELSE /\ \E d \in todo[p], OSError \in BOOLEAN :
                 /\ \A q \in todo[p] : IsUnder(q, d) => q = d
                 /\ OSError => ~strip_tree_returns(live, d)
                 /\ IF strip_tree_returns(live, d) \/ OSError
                    THEN live' = live /\ rootdir' = rootdir
                    ELSE /\ live' = IF d = Root THEN live ELSE Remove(live, d)
                         /\ rootdir' = (rootdir /\ d # Root)
                 /\ warned' = [warned EXCEPT ![p] = @ \/ OSError]
                 /\ todo' = [todo EXCEPT ![p] = @ \ {d}]
            /\ pc' = pc
    /\ UNCHANGED <<lock, last_sync, clock, body, stage, manifest, cur, resp, walk, errlog, pre, prev, req, content, invoked, cf, host, lockfile, sync_thread, srv, oneshot, args>>

\* strip_tree: a directory is handled once the directories below it are; it
\* is left alone when it is the base directory or not empty, and removed
\* otherwise (OSError: a warning is logged).  After the base directory
\* update returns True.
StripTree(p) ==
    /\ pc[p] = "strip_tree"
    /\ IF todo[p] = {}
       THEN /\ pc' = [pc EXCEPT ![p] = "log_sync"]
            /\ UNCHANGED <<live, todo, warned, rootdir>>
       ELSE /\ \E d \in todo[p], OSError \in BOOLEAN :
                 /\ \A q \in todo[p] : IsUnder(q, d) => q = d
                 /\ OSError => ~strip_tree_returns(live, d)
                 /\ IF strip_tree_returns(live, d) \/ OSError
                    THEN live' = live /\ rootdir' = rootdir
                    ELSE /\ live' = IF d = Root THEN live ELSE Remove(live, d)
                         /\ rootdir' = (rootdir /\ d # Root)
                 /\ warned' = [warned EXCEPT ![p] = @ \/ OSError]
                 /\ todo' = [todo EXCEPT ![p] = @ \ {d}]
            /\ pc' = pc
    /\ UNCHANGED <<lock, last_sync, clock, body, stage, manifest, cur, resp, walk, errlog, pre, prev, req, content, invoked, cf, host, lockfile, sync_thread, srv, oneshot, args>>

\* ------------------------------------------- update_digsig_data, do_POST

\* log_sync, after update returned True: last_sync is set to now(), then the
\* log file is opened "w" and the timestamp written.  When the open fails
\* (the path is a directory, permission denied) the exception leaves the
\* handler with last_sync already set.  (With history, the run remembers
\* the body of this update for the comparison with the next one.)
LogSync(p, history) ==
    /\ pc[p] = "log_sync"
    /\ clock' = clock + 1
    /\ last_sync' = clock + 1
    /\ \E OSError \in BOOLEAN :
        IF OSError \/ is_dir(live, <<LOGFILE>>)
        THEN /\ live' = live
             /\ pc' = [pc EXCEPT ![p] = "raised"]
        ELSE /\ live' = Put(live, <<LOGFILE>>, isoformat(clock + 1))
             /\ pc' = [pc EXCEPT ![p] = "send_200"]
    /\ prev' = IF history
               THEN [body |-> body[p], clean |-> ~errlog[p] /\ ~warned[p]]
               ELSE prev
    /\ UNCHANGED <<lock, body, stage, manifest, todo, cur, resp, walk, errlog, pre, warned, rootdir, req, content, invoked, cf, host, lockfile, sync_thread, srv, oneshot, args>>

\* A send_data that comes after the lock was given up.
SendData_unlocked(p) ==
    /\ pc[p] \in {"send_200", "send_500"}
    /\ lock' = FALSE
    /\ resp' = [resp EXCEPT ![p] = IF pc[p] = "send_200" THEN 200 ELSE 500]
    /\ pc' = [pc EXCEPT ![p] = "exit"]
    /\ UNCHANGED <<live, last_sync, clock, body, stage, manifest, todo, cur, walk, errlog, pre, warned, rootdir, prev, req, content, invoked, cf, host, lockfile, sync_thread, srv, oneshot, args>>

\* update_digsig_data: self.send_data(text, status_code)
SendData(p) ==
    /\ pc[p] \in {"send_200", "send_500"}
    /\ resp' = [resp EXCEPT ![p] = IF pc[p] = "send_200" THEN 200 ELSE 500]
    /\ pc' = [pc EXCEPT ![p] = "exit"]
    /\ UNCHANGED <<lock, live, last_sync, clock, body, stage, manifest, todo, cur, walk, errlog, pre, warned, rootdir, prev, req, content, invoked, cf, host, lockfile, sync_thread, srv, oneshot, args>>

\* do_POST: the with LOCK block is left, by return or by an exception that
\* nothing in the handler catches (then no response is ever sent).  The
\* temporary file and the locals of update_digsig_data are gone.
PostExit(p) ==
    /\ pc[p] \in {"exit", "raised"}
    /\ LockExit
    /\ pc' = [pc EXCEPT ![p] = "end"]
    /\ body' = [body EXCEPT ![p] = NoArchive]
    /\ manifest' = [manifest EXCEPT ![p] = {}]
    /\ todo' = [todo EXCEPT ![p] = {}]
    /\ cur' = [cur EXCEPT ![p] = Root]
    /\ errlog' = [errlog EXCEPT ![p] = FALSE]
    /\ pre' = [pre EXCEPT ![p] = NoPre]
    /\ warned' = [warned EXCEPT ![p] = FALSE]
    /\ prev' = IF last_sync = pre[p].last_sync THEN NoPrev ELSE prev
    /\ UNCHANGED <<live, last_sync, clock, stage, resp, walk, rootdir, req, content, invoked, cf, host, lockfile, sync_thread, srv, oneshot, args>>

\* ------------------------------------------ get_manifest, send_manifest

\* hashlib.sha256(...).hexdigest() of a file's content.
sha256(data) == [sha256 |-> data]

\* gen_manifest: one (relative path parts, digest) pair per file get_files
\* lists.
gen_manifest(t) == {[parts |-> f, sha256sum |-> sha256(t[f])] : f \in get_files(t, Root, TRUE)}

\* A GET /manifest arrives at an idle handler thread: do_GET, send_manifest,
\* get_manifest.  with suppress(Locked): with LOCK runs the walk when
\* __enter__ got the lock; when it raised Locked, get_manifest returns None
\* and send_manifest answers 503.
GetManifest(p) ==
    /\ pc[p] = "idle"
    /\ req' = [req EXCEPT ![p] = [command |-> "GET", path |-> "/manifest", put |-> NoPut]]
    /\ IF acquire(lock)
       THEN /\ lock' = TRUE
            /\ pc' = [pc EXCEPT ![p] = "gen_manifest"]
            /\ resp' = resp
       ELSE /\ lock' = lock
            /\ pc' = [pc EXCEPT ![p] = "end"]
            /\ resp' = [resp EXCEPT ![p] = 503]
    /\ UNCHANGED <<live, last_sync, clock, body, stage, manifest, todo, cur, walk, errlog, pre, warned, rootdir, prev, content, invoked, cf, host, lockfile, sync_thread, srv, oneshot, args>>

\* get_manifest: return list(gen_manifest(...)) inside the with block.  A
\* file that cannot be opened (it vanished, permission denied) raises out of
\* the walk.
GenManifest(p) ==
    /\ pc[p] = "gen_manifest"
    /\ \E OSError \in BOOLEAN :
        /\ OSError => get_files(live, Root, TRUE) # {}
        /\ IF OSError
           THEN /\ walk' = walk
                /\ pc' = [pc EXCEPT ![p] = "walk_raised"]
           ELSE /\ walk' = [walk EXCEPT ![p] = gen_manifest(live)]
                /\ pc' = [pc EXCEPT ![p] = "walk_done"]
    /\ UNCHANGED <<lock, live, last_sync, clock, body, stage, manifest, todo, cur, resp, errlog, pre, warned, rootdir, prev, req, content, invoked, cf, host, lockfile, sync_thread, srv, oneshot, args>>

\* get_manifest: the with LOCK block is left, by return or by the exception
\* (which also leaves the handler: no response is sent).
ManifestExit(p) ==
    /\ pc[p] \in {"walk_done", "walk_raised"}
    /\ LockExit
    /\ pc' = [pc EXCEPT ![p] = IF pc[p] = "walk_done" THEN "send_manifest" ELSE "end"]
    /\ UNCHANGED <<live, last_sync, clock, body, stage, manifest, todo, cur, resp, walk, errlog, pre, warned, rootdir, prev, req, content, invoked, cf, host, lockfile, sync_thread, srv, oneshot, args>>

\* send_manifest: 200 with the manifest get_manifest returned (and last_sync
\* when it is set).
SendManifest(p) ==
    /\ pc[p] = "send_manifest"
    /\ resp' = [resp EXCEPT ![p] = 200]
    /\ pc' = [pc EXCEPT ![p] = "end"]
    /\ walk' = [walk EXCEPT ![p] = {}]
    /\ UNCHANGED <<lock, live, last_sync, clock, body, stage, manifest, todo, cur, errlog, pre, warned, rootdir, prev, req, content, invoked, cf, host, lockfile, sync_thread, srv, oneshot, args>>

\* The handler returns; the thread is free for the next request.
Finish(p) ==
    /\ pc[p] = "end"
    /\ pc' = [pc EXCEPT ![p] = "idle"]
    /\ resp' = [resp EXCEPT ![p] = 0]
    /\ req' = [req EXCEPT ![p] = NoRequest]
    /\ content' = [content EXCEPT ![p] = NoContent]
    /\ invoked' = [invoked EXCEPT ![p] = [called |-> FALSE, typ |-> None, response |-> NoResponse]]
    /\ UNCHANGED <<lock, live, last_sync, clock, body, stage, manifest, todo, cur, walk, errlog, pre, warned, rootdir, prev, cf, host, lockfile, sync_thread, srv, oneshot, args>>

\* -------------------------------------------------- the other requests

\* json.dumps and str.encode, as ResponseContent.from_payload applies them.
dumps(payload) == [payload EXCEPT !.type = "str", !.enc = Append(@, "json")]

encode(payload) == [payload EXCEPT !.type = "bytes", !.enc = Append(@, "utf-8")]

\* types.py, ResponseContent.from_payload: None, dicts and lists are dumped
\* as JSON and encoded, strings are encoded, bytes are left alone; a missing
\* content type becomes application/json or text/plain.
from_payload(payload, content_type) ==
    IF payload.type \in {"NoneType", "dict", "list"}
    THEN [payload |-> encode(dumps(payload)),
          content_type |-> IF content_type = None THEN "application/json" ELSE content_type]
    ELSE [payload |-> IF payload.type = "str" THEN encode(payload) ELSE payload,
          content_type |-> IF payload.type = "str" /\ content_type = None
                           THEN "text/plain" ELSE content_type]

\* ERRORS, should every exception it knows be reported as 500.
ERRORS_all_500 ==
    [typ \in {"ValueError", "NotImplementedError", "CalledProcessError",
              "CalledProcessErrors", "UnderAdministration", "PackageManagerActive"}
        |-> 500]

\* rpc/response.py, ERRORS: the exceptions Response.__exit__ turns into a
\* status code.
ERRORS ==
    ("ValueError" :> 400) @@ ("NotImplementedError" :> 501)
    @@ ("CalledProcessError" :> 500) @@ ("CalledProcessErrors" :> 500)
    @@ ("UnderAdministration" :> 503) @@ ("PackageManagerActive" :> 503)

\* What the body of a with Response(...) block can raise: nothing, one of
\* ERRORS, or an exception ERRORS does not know.
Raisable == {None, "ValueError", "NotImplementedError", "CalledProcessError",
             "UnderAdministration", "PackageManagerActive", "TypeError", "OSError"}

\* with Response(payload) as response: ... ; return response.  __exit__ sets
\* message (a dict payload, application/json) and the status code for an
\* exception in ERRORS and lets any other exception pass.
Response(payload, content_type, typ) ==
    IF typ = None
    THEN [payload |-> payload, content_type |-> content_type, status_code |-> 200,
          raised |-> None]
    ELSE IF typ \in DOMAIN ERRORS
    THEN [payload |-> Payload("dict", typ, 0), content_type |-> "application/json",
          status_code |-> ERRORS[typ], raised |-> None]
    ELSE [NoResponse EXCEPT !.raised = typ]

\* rpc/http.py, http_reboot: Response('System is rebooting.') around reboot.
http_reboot(typ) ==
    Response(Payload("str", "System is rebooting.", 0), "application/json", typ)

\* rpc/http.py, http_screenshot: Response() whose payload and content type
\* are set from screenshot() when it returns.
http_screenshot(typ) ==
    Response(Payload("bytes", "screenshot", 0), "image/jpeg", typ)

\* rpc/http.py, COMMANDS: two of the entries of the table.
COMMANDS == {"reboot", "screenshot"}

function(command, typ) ==
    IF command = "reboot" THEN http_reboot(typ) ELSE http_screenshot(typ)

\* The paths of the request lines of POST and PUT requests and of the GET
\* requests that are not for '/', '/manifest' or '/screenshot'.
Paths == {"/", "/other"}

\* The bodies of PUT requests: one too large to load, one that is no JSON,
\* JSON that is a list, and JSON objects without 'command', with a list
\* under 'command', with an unknown and with a known command.
PutBodies ==
    {[NoPut EXCEPT !.kind = k] : k \in {"huge", "malformed", "list"}}
    \cup {[kind |-> "dict", command |-> c, args |-> "fits"] : c \in {None, "[]", "unknown"}}
    \cup {[kind |-> "dict", command |-> c, args |-> a] :
             c \in COMMANDS, a \in {"fits", "unexpected"}}

\* An exception leaves do_PUT or do_GET: no response is written.
Uncaught(p) ==
    /\ resp' = [resp EXCEPT ![p] = 0]
    /\ content' = content

\* handler_base.py, send_data: send_content(from_payload(...), status_code).
send_data(p, payload, status_code, content_type) ==
    /\ resp' = [resp EXCEPT ![p] = status_code]
    /\ content' = [content EXCEPT ![p] = from_payload(payload, content_type)]

\* do_PUT, from the request line to the response, for a PUT to any path.
\*   self.json: MemoryError -> 500, ValueError -> 406;
\*   json.pop('command'): KeyError -> 400; a list has no such pop: the
\*     TypeError is not caught;
\*   COMMANDS[command]: KeyError -> 400; a list is unhashable: the TypeError
\*     is not caught;
\*   function(**json): TypeError -> 400, be it raised by the call or inside
\*     the function; any other exception is not caught;
\*   send_data(response.payload, response.status_code, response.content_type).
DoPut(p, paths) ==
    /\ pc[p] = "idle"
    /\ pc' = [pc EXCEPT ![p] = "end"]
    /\ \E path \in paths, b \in PutBodies, typ \in Raisable :
          /\ req' = [req EXCEPT ![p] = [command |-> "PUT", path |-> path, put |-> b]]
          /\ (b.kind = "dict" /\ b.command \in COMMANDS /\ b.args = "fits") \/ typ = None
          /\ IF b.kind = "huge"
             THEN /\ send_data(p, Payload("str", "Out of memory.", 0), 500, None)
                  /\ invoked' = invoked
             ELSE IF b.kind = "malformed"
             THEN /\ send_data(p, Payload("str", "Received data is not JSON.", 0), 406, None)
                  /\ invoked' = invoked
             ELSE IF b.kind = "list"
             THEN /\ Uncaught(p)
                  /\ invoked' = invoked
             ELSE IF b.command = None
             THEN /\ send_data(p, Payload("str", "No command specified.", 0), 400, None)
                  /\ invoked' = invoked
             ELSE IF b.command = "[]"
             THEN /\ Uncaught(p)
                  /\ invoked' = invoked
             ELSE IF b.command \notin COMMANDS
             THEN /\ send_data(p, Payload("str", "Invalid command specified.", 0), 400, None)
                  /\ invoked' = invoked
             ELSE IF b.args = "unexpected"
             THEN /\ send_data(p, Payload("str", "Invalid arguments specified.", 0), 400, None)
                  /\ invoked' = invoked
             ELSE LET response == function(b.command, typ) IN
                  /\ invoked' = [invoked EXCEPT ![p] = [called |-> TRUE, typ |-> typ, response |-> response]]
                  /\ IF response.raised = "TypeError"
                     THEN send_data(p, Payload("str", "Invalid arguments specified.", 0), 400, None)
                     ELSE IF response.raised # None
                     THEN Uncaught(p)
                     ELSE send_data(p, response.payload, response.status_code,
                                    response.content_type)
    /\ UNCHANGED <<lock, live, last_sync, clock, body, stage, manifest, todo, cur, walk, errlog, pre, warned, rootdir, prev, cf, host, lockfile, sync_thread, srv, oneshot, args>>

\* A send_sysinfo that takes the lock and keeps it.
SendSysinfo_locked(p) ==
    /\ pc[p] = "idle"
    /\ pc' = [pc EXCEPT ![p] = "end"]
    /\ req' = [req EXCEPT ![p] = [command |-> "GET", path |-> "/", put |-> NoPut]]
    /\ lock' = TRUE
    /\ send_data(p, Payload("dict", "", 0), 200, None)
    /\ UNCHANGED <<live, last_sync, clock, body, stage, manifest, todo, cur, walk, errlog, pre, warned, rootdir, prev, invoked, cf, host, lockfile, sync_thread, srv, oneshot, args>>

\* do_GET for '/' (and ''): send_sysinfo.  The dict carries lastSync, the
\* isoformat of last_sync or null, and the entries of sysinfo() unless it
\* raised NotImplementedError; any other exception of sysinfo() is not
\* caught.  The lock is not touched.
SendSysinfo(p) ==
    /\ pc[p] = "idle"
    /\ pc' = [pc EXCEPT ![p] = "end"]
    /\ req' = [req EXCEPT ![p] = [command |-> "GET", path |-> "/", put |-> NoPut]]
    /\ \E typ \in {None, "NotImplementedError", "CalledProcessError"} :
          LET lastSync == IF last_sync = 0 THEN 0 ELSE isoformat(last_sync)
              json == IF typ = None THEN Payload("dict", "sysinfo", lastSync)
                                    ELSE Payload("dict", "", lastSync)
          IN  IF typ = "CalledProcessError"
              THEN Uncaught(p)
              ELSE send_data(p, json, 200, None)
    /\ UNCHANGED <<lock, live, last_sync, clock, body, stage, manifest, todo, cur, walk, errlog, pre, warned, rootdir, prev, invoked, cf, host, lockfile, sync_thread, srv, oneshot, args>>

\* do_GET for '/screenshot': send_screenshot.  The triple of
\* http_screenshot() is sent; an exception it lets pass is answered 500.
SendScreenshot(p) ==
    /\ pc[p] = "idle"
    /\ pc' = [pc EXCEPT ![p] = "end"]
    /\ req' = [req EXCEPT ![p] = [command |-> "GET", path |-> "/screenshot", put |-> NoPut]]
    /\ \E typ \in Raisable :
          LET response == http_screenshot(typ) IN
          IF response.raised # None
          THEN send_data(p, Payload("dict", response.raised, 0), 500, None)
          ELSE send_data(p, response.payload, response.status_code, response.content_type)
    /\ UNCHANGED <<lock, live, last_sync, clock, body, stage, manifest, todo, cur, walk, errlog, pre, warned, rootdir, prev, invoked, cf, host, lockfile, sync_thread, srv, oneshot, args>>

\* do_GET for any other path: send_data('Invalid path.', 404).
InvalidPath(p, paths) ==
    /\ pc[p] = "idle"
    /\ pc' = [pc EXCEPT ![p] = "end"]
    /\ \E path \in paths \ {"", "/", "/manifest", "/screenshot"} :
          req' = [req EXCEPT ![p] = [command |-> "GET", path |-> path, put |-> NoPut]]
    /\ send_data(p, Payload("str", "Invalid path.", 0), 404, None)
    /\ UNCHANGED <<lock, live, last_sync, clock, body, stage, manifest, todo, cur, walk, errlog, pre, warned, rootdir, prev, invoked, cf, host, lockfile, sync_thread, srv, oneshot, args>>

\* One request of the handler thread p that runs no update and no walk.
Route(p, paths) ==
    \/ DoPut(p, paths)
    \/ SendSysinfo(p)
    \/ SendScreenshot(p)
    \/ InvalidPath(p, paths)
    \/ Finish(p)

\* One step of the handler thread p, its POST bodies drawn from bodies and
\* the paths of its POSTs from paths.
Step(p, bodies, history, paths) ==
    \/ DoPost(p, paths)
    \/ ReadBody(p, bodies)
    \/ MkTemp(p)
    \/ TarOpen(p)
    \/ ExtractAll(p)
    \/ ExtractFailed(p)
    \/ LoadManifest(p)
    \/ CopySubfile(p)
    \/ CopySubdir(p)
    \/ CopyReturn(p)
    \/ StripFiles(p)
    \/ StripTree(p)
    \/ LogSync(p, history)
    \/ SendData(p)
    \/ PostExit(p)
    \/ GetManifest(p)
    \/ GenManifest(p)
    \/ ManifestExit(p)
    \/ SendManifest(p)
    \/ Finish(p)

\* server.py, run_server: HTTPServer serves one request after the other, so
\* one handler is active at a time.
Next == Step(1, Archives, FALSE, {"/"})

Spec == Init /\ [][Next]_vars

\* The handler under a threading server: NumHandlers requests in flight at
\* once, over a small choice of bodies and one live tree.
ThreadTree == (<<"a">> :> DIR) @@ (<<"a", "x">> :> NewData) @@ (<<MANIFEST>> :> Text(7))

ThreadArchives ==
    {[kind |-> k, tree |-> ThreadTree] : k \in {"truncated", "ok"}}
    \cup {[kind |-> "notxz", tree |-> EmptyTree]}

ThreadLiveTrees == {t \in LiveTrees : DOMAIN t = {<<"a">>, <<"b">>} /\ t[<<"a">>] = OldData}

InitThreads ==
    /\ Init
    /\ live \in ThreadLiveTrees

NextThreads == \E p \in Handlers : Step(p, ThreadArchives, FALSE, {"/"})

SpecThreads == InitThreads /\ [][NextThreads]_vars

\* The update and the walk over deeper live trees: a chain of nested
\* directories (a/d/y), a file named like the log file below the root
\* (a/synclog.txt), a dot directory with a file (.h/z), the log file itself.
DeepPaths == {<<"a">>, <<"a", "x">>, <<"a", "d">>, <<"a", "d", "y">>, <<"a", LOGFILE>>,
              <<"b">>, <<".h">>, <<".h", "z">>, <<LOGFILE>>}

DeepValues(p) ==
    IF p = <<LOGFILE>> THEN {isoformat(0)}
    ELSE IF p \in {<<"a">>, <<"a", "d">>} THEN {DIR}
    ELSE IF p = <<".h">> THEN {DIR, OldData}
    ELSE {OldData}

DeepLiveTrees ==
    {t \in UNION {[D -> {DIR, OldData, isoformat(0)}] : D \in SUBSET DeepPaths} :
        WellFormed(t) /\ \A p \in DOMAIN t : t[p] \in DeepValues(p)}

DeepArchiveTrees ==
    { (<<MANIFEST>> :> Text(3)),
      (<<"b">> :> NewData) @@ (<<MANIFEST>> :> Text(5)),
      (<<"a">> :> DIR) @@ (<<"a", "x">> :> NewData) @@ (<<MANIFEST>> :> Text(7)) }

DeepArchives ==
    {[kind |-> "ok", tree |-> t] : t \in DeepArchiveTrees}
    \cup {[kind |-> "truncated", tree |-> (<<"b">> :> NewData) @@ (<<MANIFEST>> :> Text(5))],
          [kind |-> "notxz", tree |-> EmptyTree]}

InitDeep ==
    /\ lock = FALSE
    /\ live \in DeepLiveTrees
    /\ last_sync = 0
    /\ clock = 0
    /\ pc = [p \in Handlers |-> "idle"]
    /\ body = [p \in Handlers |-> NoArchive]
    /\ stage = [p \in Handlers |-> NoStage]
    /\ manifest = [p \in Handlers |-> {}]
    /\ todo = [p \in Handlers |-> {}]
    /\ cur = [p \in Handlers |-> Root]
    /\ resp = [p \in Handlers |-> 0]
    /\ walk = [p \in Handlers |-> {}]
    /\ errlog = [p \in Handlers |-> FALSE]
    /\ pre = [p \in Handlers |-> NoPre]
    /\ warned = [p \in Handlers |-> FALSE]
    /\ rootdir = TRUE
    /\ prev = NoPrev
    /\ req = [p \in Handlers |-> NoRequest]
    /\ content = [p \in Handlers |-> NoContent]
    /\ invoked = [p \in Handlers |-> [called |-> FALSE, typ |-> None, response |-> NoResponse]]
    /\ cf = NoCopy
    /\ host = NoHost
    /\ lockfile = FALSE
    /\ sync_thread = NoThread
    /\ srv = NoServe
    /\ oneshot = NoOneShot
    /\ args = NoArgs

NextDeep == Step(1, DeepArchives, FALSE, {"/"})

SpecDeep == InitDeep /\ [][NextDeep]_vars

\* -------------------------------------------- server.py, the older handler

\* server.py, do_POST: if LOCK.acquire(): update_digsig_data();
\* LOCK.release().  LOCK is a threading.Lock and acquire() is called without
\* arguments: it blocks until the lock is free and then returns True, so the
\* else branch with its 503 is never taken.  run_server serves one request
\* at a time: while this handler waits nothing else runs, and a lock that is
\* held when the request arrives is never released.
ServerDoPost(p) ==
    /\ pc[p] = "idle"
    /\ clock < MaxSyncs
    /\ req' = [req EXCEPT ![p] = [command |-> "POST", path |-> "/", put |-> NoPut]]
    /\ IF ~lock
       THEN /\ lock' = TRUE
            /\ pc' = [pc EXCEPT ![p] = "read_body"]
            /\ pre' = [pre EXCEPT ![p] = [tree |-> live, last_sync |-> last_sync]]
       ELSE /\ lock' = lock
            /\ pc' = [pc EXCEPT ![p] = "acquire"]
            /\ pre' = pre
    /\ UNCHANGED <<live, last_sync, clock, body, stage, manifest, todo, cur, resp, walk, errlog, warned, rootdir, prev, content, invoked, cf, host, lockfile, sync_thread, srv, oneshot, args>>

\* server.py, do_POST: update_digsig_data has returned and LOCK.release()
\* is called; or it has raised, and the exception leaves do_POST past the
\* release, the lock still held.
ServerPostExit(p) ==
    /\ pc[p] \in {"exit", "raised"}
    /\ lock' = IF pc[p] = "exit" THEN FALSE ELSE lock
    /\ pc' = [pc EXCEPT ![p] = "end"]
    /\ body' = [body EXCEPT ![p] = NoArchive]
    /\ manifest' = [manifest EXCEPT ![p] = {}]
    /\ todo' = [todo EXCEPT ![p] = {}]
    /\ cur' = [cur EXCEPT ![p] = Root]
    /\ errlog' = [errlog EXCEPT ![p] = FALSE]
    /\ pre' = [pre EXCEPT ![p] = NoPre]
    /\ warned' = [warned EXCEPT ![p] = FALSE]
    /\ UNCHANGED <<live, last_sync, clock, stage, resp, walk, rootdir, prev, req, content, invoked, cf, host, lockfile, sync_thread, srv, oneshot, args>>

\* server.py, do_GET and the manifest property: LOCK.acquire() (blocking, as
\* in do_POST), manifest = gen_manifest(...), LOCK.release().  gen_manifest
\* is a generator function: the call creates the generator and walks
\* nothing.
ServerDoGet(p) ==
    /\ pc[p] = "idle"
    /\ req' = [req EXCEPT ![p] = [command |-> "GET", path |-> "/", put |-> NoPut]]
    /\ pc' = [pc EXCEPT ![p] = IF ~lock THEN "send_manifest" ELSE "acquire"]
    /\ UNCHANGED <<lock, live, last_sync, clock, body, stage, manifest, todo, cur, resp, walk, errlog, pre, warned, rootdir, prev, content, invoked, cf, host, lockfile, sync_thread, srv, oneshot, args>>

\* server.py, do_GET: send_data({'manifest': manifest, ...}, 200) hands the
\* dict to json.dumps, which raises TypeError for the generator in it: no
\* response is sent and the directory is never walked.
ServerSendManifest(p) ==
    /\ pc[p] = "send_manifest"
    /\ pc' = [pc EXCEPT ![p] = "end"]
    /\ UNCHANGED <<lock, live, last_sync, clock, body, stage, manifest, todo, cur, resp, walk, errlog, pre, warned, rootdir, prev, req, content, invoked, cf, host, lockfile, sync_thread, srv, oneshot, args>>

\* One step of the handler of server.py; update_digsig_data and update are
\* the ones of the Lock-based handler.
ServerStep(p, bodies) ==
    \/ ServerDoPost(p)
    \/ ReadBody(p, bodies)
    \/ MkTemp(p)
    \/ TarOpen(p)
    \/ ExtractAll(p)
    \/ ExtractFailed(p)
    \/ LoadManifest(p)
    \/ CopySubfile(p)
    \/ CopySubdir(p)
    \/ CopyReturn(p)
    \/ StripFiles(p)
    \/ StripTree(p)
    \/ LogSync(p, FALSE)
    \/ SendData(p)
    \/ ServerPostExit(p)
    \/ ServerDoGet(p)
    \/ ServerSendManifest(p)
    \/ Finish(p)

InitServer ==
    /\ Init
    /\ live \in ThreadLiveTrees

\* server.py, run_server: HTTPServer, one request after the other.
NextServer == ServerStep(1, ThreadArchives)

SpecServer == InitServer /\ [][NextServer]_vars

\* ------------------------------------------------- common.py, copy_file

MaxSize == 6

MaxChunk == 4

\* The number of bytes of a read, should it always be a whole chunk.
bytes_whole_chunk(size, chunk_size) == chunk_size

\* copy_file: bytes := min(size, chunk_size)
bytes(size, chunk_size) == IF size < chunk_size THEN size ELSE chunk_size

\* src.read(n) on a file object that has left bytes left: n bytes, or all
\* that is left when the file ends before.
read(left, n) == IF left < n THEN left ELSE n

\* The bytes the reads of a call have requested so far.
RECURSIVE requested(_)
requested(reads) ==
    IF reads = <<>> THEN 0 ELSE Head(reads) + requested(Tail(reads))

\* copy_file, one pass of the loop: while size > 0: size -= bytes;
\* dst.write(src.read(bytes)).
CopyFileLoop ==
    /\ cf.pc = "while"
    /\ cf.size > 0
    /\ LET n == bytes(cf.size, cf.chunk_size)
           got == read(cf.src, n)
       IN  cf' = [cf EXCEPT !.size = @ - n, !.src = @ - got,
                            !.reads = Append(@, n), !.dst = @ + got]
    /\ UNCHANGED <<lock, live, last_sync, clock, pc, body, stage, manifest, todo, cur, resp, walk, errlog, pre, warned, rootdir, prev, req, content, invoked, host, lockfile, sync_thread, srv, oneshot, args>>

\* copy_file: the loop condition fails and the function returns.
CopyFileReturn ==
    /\ cf.pc = "while"
    /\ ~(cf.size > 0)
    /\ cf' = [cf EXCEPT !.pc = "return"]
    /\ UNCHANGED <<lock, live, last_sync, clock, pc, body, stage, manifest, todo, cur, resp, walk, errlog, pre, warned, rootdir, prev, req, content, invoked, host, lockfile, sync_thread, srv, oneshot, args>>

\* copy_file(src, dst, size, chunk_size) called with size in 0..MaxSize and
\* chunk_size in 1..MaxChunk on a source that holds 0..MaxSize bytes and an
\* empty destination.
InitCopy ==
    /\ lock = FALSE
    /\ live = EmptyTree
    /\ last_sync = 0
    /\ clock = 0
    /\ pc = [p \in Handlers |-> "idle"]
    /\ body = [p \in Handlers |-> NoArchive]
    /\ stage = [p \in Handlers |-> NoStage]
    /\ manifest = [p \in Handlers |-> {}]
    /\ todo = [p \in Handlers |-> {}]
    /\ cur = [p \in Handlers |-> Root]
    /\ resp = [p \in Handlers |-> 0]
    /\ walk = [p \in Handlers |-> {}]
    /\ errlog = [p \in Handlers |-> FALSE]
    /\ pre = [p \in Handlers |-> NoPre]
    /\ warned = [p \in Handlers |-> FALSE]
    /\ rootdir = TRUE
    /\ prev = NoPrev
    /\ req = [p \in Handlers |-> NoRequest]
    /\ content = [p \in Handlers |-> NoContent]
    /\ invoked = [p \in Handlers |-> [called |-> FALSE, typ |-> None, response |-> NoResponse]]
    /\ \E size \in 0..MaxSize, chunk_size \in 1..MaxChunk, src \in 0..MaxSize :
          cf = [pc |-> "while", total |-> size, chunk_size |-> chunk_size,
                size |-> size, src |-> src, reads |-> <<>>, dst |-> 0]
    /\ host = NoHost
    /\ lockfile = FALSE
    /\ sync_thread = NoThread
    /\ srv = NoServe
    /\ oneshot = NoOneShot
    /\ args = NoArgs

NextCopy == CopyFileLoop \/ CopyFileReturn

\* The loop is the only thing the call does: it is not suspended for ever.
SpecCopy == InitCopy /\ [][NextCopy]_vars /\ WF_vars(NextCopy)

\* The same update applied again: the run remembers the body of the last
\* successful update, over archives with listed and unlisted files and a
\* directory where the live tree may hold a file.
TwiceArchiveTrees ==
    {t \in ArchiveTrees :
        /\ <<MANIFEST>> \in DOMAIN t
        /\ t[<<MANIFEST>>] \in {Text(3), Text(4), Text(8)}
        /\ (<<"a">> \in DOMAIN t /\ t[<<"a">>] = DIR) => <<"a", "x">> \in DOMAIN t}

TwiceArchives ==
    {[kind |-> "ok", tree |-> t] : t \in TwiceArchiveTrees}
    \cup {[kind |-> "truncated", tree |-> (<<"b">> :> NewData) @@ (<<MANIFEST>> :> Text(8))],
          [kind |-> "notxz", tree |-> EmptyTree]}

TwiceLiveTrees == {t \in LiveTrees : <<".h">> \notin DOMAIN t /\ <<LOGFILE>> \notin DOMAIN t}

InitTwice ==
    /\ Init
    /\ live \in TwiceLiveTrees

NextTwice == Step(1, TwiceArchives, TRUE, {"/"})

SpecTwice == InitTwice /\ [][NextTwice]_vars

\* One connection synchronises and queries the manifest while another one
\* sends commands, status queries and requests to other paths.
InitRoutes ==
    /\ Init
    /\ live \in ThreadLiveTrees

NextRoutes ==
    \/ Step(1, ThreadArchives, FALSE, Paths)
    \/ Route(NumHandlers, Paths)

SpecRoutes == InitRoutes /\ [][NextRoutes]_vars

TypeOK ==
    /\ lock \in BOOLEAN
    /\ WellFormed(live)
    /\ last_sync \in 0..MaxSyncs
    /\ clock \in 0..MaxSyncs
    /\ \A p \in Handlers : stage[p].exists \in BOOLEAN /\ WellFormed(stage[p].tree)
    /\ \A p \in Handlers : warned[p] \in BOOLEAN
    /\ rootdir \in BOOLEAN
    /\ prev.clean \in BOOLEAN

\* ------------------------------------------------- the reboot command

\* os/posix/common.py, ADMIN_USERS
ADMIN_USERS == {"homeinfo", "root"}

\* The users loginctl may list a session of.
Users == ADMIN_USERS \cup {"digsig"}

\* The systems a reboot command may find.  On a POSIX system loginctl
\* lists the sessions of some users or fails, /var/lib/pacman/db.lck exists
\* or not and pidof finds a pacman or not; a system that is not POSIX has
\* neither loginctl nor pacman.
Hosts ==
    {[name |-> "posix", loginctl |-> "ok", sessions |-> u, db_lck |-> l, pacman |-> r,
      issued |-> FALSE] : u \in SUBSET Users, l \in BOOLEAN, r \in BOOLEAN}
    \cup {[name |-> "posix", loginctl |-> "CalledProcessError", sessions |-> {},
           db_lck |-> l, pacman |-> r, issued |-> FALSE] : l \in BOOLEAN, r \in BOOLEAN}
    \cup {[name |-> n, loginctl |-> "ok", sessions |-> {}, db_lck |-> FALSE,
           pacman |-> FALSE, issued |-> FALSE] : n \in {"nt", "java"}}

\* os/posix/common.py, logged_in_users: the users of the sessions
\* check_output(loginctl list-sessions) printed.
logged_in_users(h) == h.sessions

\* os/posix/pacman.py, is_running: whether pidof finds a pacman.
pacman_running(h) == h.pacman

\* A reboot that looks at the package manager before the sessions.
posix_reboot_pacman_first(h, failed) ==
    IF h.loginctl # "ok"
    THEN [raised |-> "CalledProcessError", check_call |-> FALSE]
    ELSE IF h.db_lck \/ pacman_running(h)
    THEN [raised |-> "PackageManagerActive", check_call |-> FALSE]
    ELSE IF logged_in_users(h) \cap ADMIN_USERS # {}
    THEN [raised |-> "UnderAdministration", check_call |-> FALSE]
    ELSE [raised |-> IF failed THEN "CalledProcessError" ELSE None, check_call |-> TRUE]

\* os/posix/reboot.py, reboot: what it raises and whether it ran
\* check_call(REBOOT), which fails or not.
posix_reboot(h, failed) ==
    IF h.loginctl # "ok"
    THEN [raised |-> "CalledProcessError", check_call |-> FALSE]
    ELSE IF logged_in_users(h) \cap ADMIN_USERS # {}
    THEN [raised |-> "UnderAdministration", check_call |-> FALSE]
    ELSE IF h.db_lck \/ pacman_running(h)
    THEN [raised |-> "PackageManagerActive", check_call |-> FALSE]
    ELSE [raised |-> IF failed THEN "CalledProcessError" ELSE None, check_call |-> TRUE]

\* os/nt.py, reboot: check_call of shutdown.exe.
nt_reboot(failed) ==
    [raised |-> IF failed THEN "CalledProcessError" ELSE None, check_call |-> TRUE]

\* os/__init__.py, reboot: by os.name.
reboot(h, failed) ==
    IF h.name = "posix" THEN posix_reboot(h, failed)
    ELSE IF h.name = "nt" THEN nt_reboot(failed)
    ELSE [raised |-> "NotImplementedError", check_call |-> FALSE]

\* do_PUT for the body {"command": "reboot"}: COMMANDS['reboot'] is
\* http_reboot, whose with Response block runs reboot(); the response is
\* sent with send_data.
DoPutReboot(p, paths) ==
    /\ pc[p] = "idle"
    /\ pc' = [pc EXCEPT ![p] = "end"]
    /\ \E path \in paths, h \in Hosts, failed \in BOOLEAN :
          LET out == reboot(h, failed)
              response == function("reboot", out.raised)
          IN  /\ failed => out.check_call
              /\ req' = [req EXCEPT ![p] =
                     [command |-> "PUT", path |-> path,
                      put |-> [kind |-> "dict", command |-> "reboot", args |-> "fits"]]]
              /\ host' = [h EXCEPT !.issued = out.check_call]
              /\ invoked' = [invoked EXCEPT ![p] =
                     [called |-> TRUE, typ |-> out.raised, response |-> response]]
              /\ IF response.raised # None
                 THEN Uncaught(p)
                 ELSE send_data(p, response.payload, response.status_code,
                                response.content_type)
    /\ UNCHANGED <<lock, live, last_sync, clock, body, stage, manifest, todo, cur, walk, errlog, pre, warned, rootdir, prev, cf, lockfile, sync_thread, srv, oneshot, args>>

InitReboot ==
    /\ Init
    /\ live = EmptyTree

NextReboot ==
    \/ DoPutReboot(NumHandlers, Paths)
    \/ Finish(NumHandlers)

SpecReboot == InitReboot /\ [][NextReboot]_vars

\* ------------------------------------- digsigclt.py, the stand-alone client

\* The largest --max-retries of a run of the stand-alone client.
MaxRetries == 2

\* Synchronisation threads the server of the stand-alone client starts in
\* one run.
MaxThreads == 2

\* The bodies of the POST requests to the server of the stand-alone
\* client: JSON objects with the command sync, with another command and
\* without a command, and JSON that is a list.
ClientBodies ==
    {[kind |-> "dict", command |-> c] : c \in {"sync", "other", None}}
    \cup {[kind |-> "list", command |-> None]}

\* A run of safe_sync that has just begun, in a Thread or in a process:
\* where it stands, the arguments and the local retries of the running call
\* of read_retry, the number of response.read() calls of that call, what the
\* last read returned, and how safe_sync ended.
Sync(max_retries) ==
    [state |-> "read", max_retries |-> max_retries, retries |-> 0, attempts |-> 0,
     data |-> None, result |-> None, error |-> None]

\* read_retry: one response.read().  It returns the data, or on
\* IncompleteRead calls itself with retries + 1 if retries <= max_retries
\* and re-raises otherwise; safe_sync catches the IncompleteRead and
\* returns False.
read_retry(t, IncompleteRead, data) ==
    IF ~IncompleteRead
    THEN [t EXCEPT !.state = "returned", !.attempts = @ + 1, !.data = data]
    ELSE IF t.retries <= t.max_retries
    THEN [t EXCEPT !.retries = @ + 1, !.attempts = @ + 1]
    ELSE [t EXCEPT !.state = "finally", !.attempts = @ + 1, !.result = "False",
                   !.error = "IncompleteRead"]

\* stream: iter(read, b'') calls read_retry anew (retries=0) after every
\* chunk and stops at b''; do_sync then runs update.
stream(t) ==
    IF t.data = "chunk"
    THEN [t EXCEPT !.state = "read", !.retries = 0, !.attempts = 0, !.data = None]
    ELSE [t EXCEPT !.state = "update"]

\* safe_sync: the next step of a run, in every way it can go.  update
\* returns True or False or raises (tar_open and extractall stand in no try
\* block); an exception safe_sync does not catch leaves it.
safe_sync(t) ==
    IF t.state = "read"
    THEN {read_retry(t, IncompleteRead, data) :
             IncompleteRead \in BOOLEAN, data \in {"chunk", "eof"}}
    ELSE IF t.state = "returned"
    THEN {stream(t)}
    ELSE {[t EXCEPT !.state = "finally", !.result = r] : r \in {"True", "False", "raised"}}

InSafeSync == {"read", "returned", "update"}

\* Thread.is_alive()
is_alive(t) == t.state # "dead"

\* A sync_pending that never sees a thread.
sync_pending_blind(threads) == FALSE

\* HTTPRequestHandler.sync_pending: a thread was started and is alive.
sync_pending(threads) == threads # NoThread /\ is_alive(threads[Len(threads)])

\* do_POST of the stand-alone client: self.json.get('command').  A body
\* that is a list has no get: the AttributeError leaves the handler without
\* a response.  Any command but sync is answered 400; sync calls start_sync.
\* (The guard bounds the number of threads of a run.)
ClientDoPost ==
    /\ srv.pc = "idle"
    /\ \E b \in ClientBodies :
          /\ b.command = "sync" => Len(sync_thread) < MaxThreads
          /\ srv' = IF b.kind # "dict"
                    THEN [srv EXCEPT !.pc = "end", !.kind = b.kind]
                    ELSE IF b.command # "sync"
                    THEN [srv EXCEPT !.pc = "end", !.kind = b.kind, !.command = b.command,
                                     !.status_code = 400]
                    ELSE [srv EXCEPT !.pc = "create", !.kind = b.kind,
                                     !.command = b.command]
    /\ UNCHANGED <<lock, live, last_sync, clock, pc, body, stage, manifest, todo, cur, resp, walk, errlog, pre, warned, rootdir, prev, req, content, invoked, cf, host, lockfile, sync_thread, oneshot, args>>

\* start_sync, LOCK_FILE.create(): if self.exists: raise Locked(); then
\* start_sync returns False and do_POST answers 503.
ClientCreate ==
    /\ srv.pc = "create"
    /\ srv' = IF lockfile
              THEN [srv EXCEPT !.pc = "end", !.status_code = 503]
              ELSE [srv EXCEPT !.pc = "open"]
    /\ UNCHANGED <<lock, live, last_sync, clock, pc, body, stage, manifest, todo, cur, resp, walk, errlog, pre, warned, rootdir, prev, req, content, invoked, cf, host, lockfile, sync_thread, oneshot, args>>

\* LOCK_FILE.create(), after the test: self.path.open('wb') makes the file
\* or truncates the one that is there.
ClientOpen ==
    /\ srv.pc = "open"
    /\ lockfile' = TRUE
    /\ srv' = [srv EXCEPT !.pc = "sync_pending", !.created = TRUE]
    /\ UNCHANGED <<lock, live, last_sync, clock, pc, body, stage, manifest, todo, cur, resp, walk, errlog, pre, warned, rootdir, prev, req, content, invoked, cf, host, sync_thread, oneshot, args>>

\* start_sync, after create: if sync_pending() the lock file is unlinked
\* and do_POST answers 503; else the Thread is made and started and
\* do_POST answers 202.
StartSync ==
    /\ srv.pc = "sync_pending"
    /\ IF sync_pending(sync_thread)
       THEN /\ lockfile' = FALSE
            /\ sync_thread' = sync_thread
            /\ srv' = [srv EXCEPT !.pc = "end", !.pending = TRUE, !.status_code = 503]
       ELSE /\ lockfile' = lockfile
            /\ sync_thread' = Append(sync_thread, Sync(args.max_retries))
            /\ srv' = [srv EXCEPT !.pc = "end", !.started = TRUE, !.status_code = 202]
    /\ UNCHANGED <<lock, live, last_sync, clock, pc, body, stage, manifest, todo, cur, resp, walk, errlog, pre, warned, rootdir, prev, req, content, invoked, cf, host, oneshot, args>>

\* do_POST returns; the server waits for the next request.
ClientFinish ==
    /\ srv.pc = "end"
    /\ srv' = NoServe
    /\ UNCHANGED <<lock, live, last_sync, clock, pc, body, stage, manifest, todo, cur, resp, walk, errlog, pre, warned, rootdir, prev, req, content, invoked, cf, host, lockfile, sync_thread, oneshot, args>>

\* sync_in_thread: a step of safe_sync in the try block.
ThreadSafeSync(i) ==
    /\ sync_thread[i].state \in InSafeSync
    /\ \E t \in safe_sync(sync_thread[i]) : sync_thread' = [sync_thread EXCEPT ![i] = t]
    /\ UNCHANGED <<lock, live, last_sync, clock, pc, body, stage, manifest, todo, cur, resp, walk, errlog, pre, warned, rootdir, prev, req, content, invoked, cf, host, lockfile, srv, oneshot, args>>

\* A sync_in_thread without finally: the lock file is unlinked only when
\* safe_sync returned.
ThreadUnlink_no_finally(i) ==
    /\ sync_thread[i].state = "finally"
    /\ lockfile' = IF sync_thread[i].result = "raised" THEN lockfile ELSE FALSE
    /\ sync_thread' = [sync_thread EXCEPT ![i].state = "unlinked"]
    /\ UNCHANGED <<lock, live, last_sync, clock, pc, body, stage, manifest, todo, cur, resp, walk, errlog, pre, warned, rootdir, prev, req, content, invoked, cf, host, srv, oneshot, args>>

\* sync_in_thread: finally: LOCK_FILE.unlink(), whether safe_sync returned
\* or raised (a missing file is no error).
ThreadUnlink(i) ==
    /\ sync_thread[i].state = "finally"
    /\ lockfile' = FALSE
    /\ sync_thread' = [sync_thread EXCEPT ![i].state = "unlinked"]
    /\ UNCHANGED <<lock, live, last_sync, clock, pc, body, stage, manifest, todo, cur, resp, walk, errlog, pre, warned, rootdir, prev, req, content, invoked, cf, host, srv, oneshot, args>>

\* The thread ends once sync_in_thread has returned or raised.
ThreadEnd(i) ==
    /\ sync_thread[i].state = "unlinked"
    /\ sync_thread' = [sync_thread EXCEPT ![i].state = "dead"]
    /\ UNCHANGED <<lock, live, last_sync, clock, pc, body, stage, manifest, todo, cur, resp, walk, errlog, pre, warned, rootdir, prev, req, content, invoked, cf, host, lockfile, srv, oneshot, args>>

\* main without --server: sync(config, args) in a process of its own.
OneShotSync ==
    /\ oneshot.state = "idle"
    /\ oneshot' = [Sync(args.max_retries) EXCEPT !.state = "create"]
    /\ UNCHANGED <<lock, live, last_sync, clock, pc, body, stage, manifest, todo, cur, resp, walk, errlog, pre, warned, rootdir, prev, req, content, invoked, cf, host, lockfile, sync_thread, srv, args>>

\* sync: with LOCK_FILE, __enter__, create(): if self.exists: raise
\* Locked(), which sync catches to return False.
OneShotCreate ==
    /\ oneshot.state = "create"
    /\ oneshot' = IF lockfile
                  THEN [oneshot EXCEPT !.state = "exit", !.result = "False",
                                       !.error = "Locked"]
                  ELSE [oneshot EXCEPT !.state = "open"]
    /\ UNCHANGED <<lock, live, last_sync, clock, pc, body, stage, manifest, todo, cur, resp, walk, errlog, pre, warned, rootdir, prev, req, content, invoked, cf, host, lockfile, sync_thread, srv, args>>

\* create(), after the test: self.path.open('wb').
OneShotOpen ==
    /\ oneshot.state = "open"
    /\ lockfile' = TRUE
    /\ oneshot' = [oneshot EXCEPT !.state = "read"]
    /\ UNCHANGED <<lock, live, last_sync, clock, pc, body, stage, manifest, todo, cur, resp, walk, errlog, pre, warned, rootdir, prev, req, content, invoked, cf, host, sync_thread, srv, args>>

\* sync: a step of safe_sync inside the with block.
OneShotSafeSync ==
    /\ oneshot.state \in InSafeSync
    /\ oneshot' \in safe_sync(oneshot)
    /\ UNCHANGED <<lock, live, last_sync, clock, pc, body, stage, manifest, todo, cur, resp, walk, errlog, pre, warned, rootdir, prev, req, content, invoked, cf, host, lockfile, sync_thread, srv, args>>

\* LockFile.__exit__: self.unlink()
OneShotUnlink ==
    /\ oneshot.state = "finally"
    /\ lockfile' = FALSE
    /\ oneshot' = [oneshot EXCEPT !.state = "exit"]
    /\ UNCHANGED <<lock, live, last_sync, clock, pc, body, stage, manifest, todo, cur, resp, walk, errlog, pre, warned, rootdir, prev, req, content, invoked, cf, host, sync_thread, srv, args>>

\* exit(0) or exit(1): the process is gone; another may be started.
OneShotExit ==
    /\ oneshot.state = "exit"
    /\ oneshot' = NoOneShot
    /\ UNCHANGED <<lock, live, last_sync, clock, pc, body, stage, manifest, todo, cur, resp, walk, errlog, pre, warned, rootdir, prev, req, content, invoked, cf, host, lockfile, sync_thread, srv, args>>

InitClient ==
    /\ lock = FALSE
    /\ live = EmptyTree
    /\ last_sync = 0
    /\ clock = 0
    /\ pc = [p \in Handlers |-> "idle"]
    /\ body = [p \in Handlers |-> NoArchive]
    /\ stage = [p \in Handlers |-> NoStage]
    /\ manifest = [p \in Handlers |-> {}]
    /\ todo = [p \in Handlers |-> {}]
    /\ cur = [p \in Handlers |-> Root]
    /\ resp = [p \in Handlers |-> 0]
    /\ walk = [p \in Handlers |-> {}]
    /\ errlog = [p \in Handlers |-> FALSE]
    /\ pre = [p \in Handlers |-> NoPre]
    /\ warned = [p \in Handlers |-> FALSE]
    /\ rootdir = TRUE
    /\ prev = NoPrev
    /\ req = [p \in Handlers |-> NoRequest]
    /\ content = [p \in Handlers |-> NoContent]
    /\ invoked = [p \in Handlers |-> [called |-> FALSE, typ |-> None, response |-> NoResponse]]
    /\ cf = NoCopy
    /\ host = NoHost
    /\ lockfile = FALSE
    /\ sync_thread = NoThread
    /\ srv = NoServe
    /\ oneshot = NoOneShot
    /\ \E max_retries \in 0..MaxRetries : args = [max_retries |-> max_retries]

\* server(): serve_forever handles one request at a time while the
\* threads it started run.
NextClient ==
    \/ ClientDoPost
    \/ ClientCreate
    \/ ClientOpen
    \/ StartSync
    \/ ClientFinish
    \/ \E i \in DOMAIN sync_thread :
          \/ ThreadSafeSync(i)
          \/ ThreadUnlink(i)
          \/ ThreadEnd(i)

SpecClient == InitClient /\ [][NextClient]_vars

\* The server and a process running sync() share the temp directory.
NextLockFile ==
    \/ NextClient
    \/ OneShotSync
    \/ OneShotCreate
    \/ OneShotOpen
    \/ OneShotSafeSync
    \/ OneShotUnlink
    \/ OneShotExit

SpecLockFile == InitClient /\ [][NextLockFile]_vars

\* ------------------------------------------------------------- properties

\* Where a request stands between Lock.__enter__ and Lock.__exit__.
Region == PostPcs \cup {"extract_failed", "send_200", "send_500", "exit", "raised",
                        "gen_manifest", "walk_done", "walk_raised"}

\* C1: under any interleaving of POST and GET /manifest requests at most one
\* request is inside the lock-protected region, so two merges never overlap
\* and no manifest walk runs while a merge or a prune is in progress.
C1_MutualExclusion ==
    \A p, q \in Handlers :
        (p # q /\ pc[p] \in Region) => pc[q] \notin Region

\* A merge is in progress while another request has been turned away.
C1_Witness ==
    \E p, q \in Handlers :
        /\ pc[p] = "copy_directory" /\ live # pre[p].tree
        /\ pc[q] = "end" /\ resp[q] = 503

\* C2: a POST or GET /manifest that arrives while the lock is held is
\* answered 503 in the very step of its attempt and leaves the lock (still
\* held by its owner), the live tree with its log file, the timestamp and
\* every staging directory as they were; one that arrives while the lock is
\* free takes it and proceeds.
C2_RejectedAtOnce ==
    [][\A p \in Handlers :
          (pc[p] = "idle" /\ pc'[p] # "idle") =>
              IF lock
              THEN /\ pc'[p] = "end" /\ resp'[p] = 503
                   /\ lock'
                   /\ UNCHANGED <<live, last_sync, clock, stage>>
                   /\ \A q \in Handlers : q # p => pc'[q] = pc[q]
              ELSE /\ pc'[p] \in {"read_body", "gen_manifest"}
                   /\ lock'
                   /\ resp'[p] = 0]_vars

\* An update is pruning while the other request has been answered 503.
C2_Witness ==
    \E p, q \in Handlers :
        /\ pc[p] = "strip_files" /\ lock
        /\ pc[q] = "end" /\ resp[q] = 503

\* C3: whenever no request is inside the region the lock is free, whatever
\* the requests before returned or raised; the next POST can take it.
C3_ReleasedAtEnd ==
    (\A p \in Handlers : pc[p] \notin Region) => ~lock

\* One request ended by an exception (no response), another with a failure
\* (500), and the lock is free.
C3_Witness ==
    \E p, q \in Handlers :
        /\ pc[p] = "end" /\ resp[p] = 0
        /\ pc[q] = "end" /\ resp[q] = 500
        /\ ~lock

\* C9: a staging directory exists only inside the update of the request that
\* holds the lock, between its creation and the end of the with block: never
\* after update has returned or raised, never while the lock is free, never
\* for two requests at once.
C9_StagingInsideUpdate ==
    /\ \A p \in Handlers :
          stage[p].exists =>
              /\ lock
              /\ pc[p] \in {"tar_open", "extractall", "extract_failed",
                            "load_manifest", "copy_directory"}
    /\ \A p, q \in Handlers : (p # q /\ stage[p].exists) => ~stage[q].exists

\* A populated staging directory exists while another request was rejected.
C9_Witness ==
    \E p, q \in Handlers :
        /\ stage[p].exists /\ stage[p].tree # EmptyTree /\ pc[p] = "extract_failed"
        /\ pc[q] = "end" /\ resp[q] = 503

\* The archive cannot be staged and validated: the stream does not extract,
\* or the staged tree has no manifest file that parses as a list of path
\* segment lists.
BadManifest(t) ==
    \/ <<MANIFEST>> \notin DOMAIN t
    \/ t[<<MANIFEST>>] = DIR
    \/ t[<<MANIFEST>>] \notin Texts
    \/ ~Docs[t[<<MANIFEST>>] - NewData].islist
    \/ \E item \in Docs[t[<<MANIFEST>>] - NewData].items : ~item.strs

Unusable(a) == a.kind \in {"notxz", "truncated"} \/ BadManifest(a.tree)

\* The log file as the update found it / as it is now.
LogOf(t) == IF <<LOGFILE>> \in DOMAIN t THEN t[<<LOGFILE>>] ELSE DIR

\* C4: when the stream fails to extract, or the staged tree has no manifest,
\* or the manifest does not parse as the expected structure, the live tree
\* is, at every step of the request, the tree the request found.
C4_AbortBeforeMutate ==
    \A p \in Handlers :
        (pc[p] \in Region /\ body[p].kind # "none" /\ Unusable(body[p]))
            => live = pre[p].tree

\* A complete archive with a file for an existing live path and an unusable
\* manifest has been answered 500.
C4_Witness ==
    \E p \in Handlers :
        /\ pc[p] = "exit" /\ resp[p] = 500
        /\ body[p].kind = "ok" /\ BadManifest(body[p].tree)
        /\ <<"a">> \in DOMAIN body[p].tree
        /\ <<"a">> \in DOMAIN live /\ live[<<"a">>] = OldData

\* C5 (as the claim states it): a POST that acquired the lock has, when its
\* handler ends, been answered 200 or 500; 200 exactly when extraction,
\* manifest validation, merge and prune all succeeded; and the timestamp and
\* the log file were written exactly when the answer is 200.
C5_Claim ==
    \A p \in Handlers :
        pc[p] \in {"exit", "raised"} =>
            /\ resp[p] \in {200, 500}
            /\ resp[p] = 200 <=> (~Unusable(body[p]) /\ ~errlog[p])
            /\ resp[p] = 200 <=> last_sync # pre[p].last_sync
            /\ resp[p] = 200 <=> LogOf(live) # LogOf(pre[p].tree)

\* C6 (as the claim states it): once a file copy of the merge or a file
\* deletion of the prune has failed, update does not return True, the POST
\* is answered 500, and neither the timestamp nor the log file changes.
C6_Claim ==
    \A p \in Handlers :
        errlog[p] =>
            /\ pc[p] \notin {"log_sync", "send_200"}
            /\ pc[p] = "exit" => resp[p] = 500
            /\ last_sync = pre[p].last_sync
            /\ LogOf(live) = LogOf(pre[p].tree)

\* The manifest of the running update has been loaded.
Loaded(p) ==
    pc[p] \in {"copy_directory", "strip_files", "strip_tree", "log_sync",
               "send_200", "send_500", "exit", "raised"}

\* C7 (as the claim states it): during an update a live file that the new
\* manifest lists and that existed before is a file of the live tree in
\* every intermediate state.
C7_Claim ==
    \A p \in Handlers :
        Loaded(p) =>
            \A f \in manifest[p] : is_file(pre[p].tree, f) => is_file(live, f)

\* C7 (amended): the same, for every listed file at whose path the archive
\* does not hold a directory (the merge removes a file that is in the way of
\* a directory); the prune never removes a listed file.
C7_ListedFileStays ==
    \A p \in Handlers :
        Loaded(p) =>
            \A f \in manifest[p] :
                (is_file(pre[p].tree, f) /\ ~is_dir(body[p].tree, f)) => is_file(live, f)

\* The prune is through: a listed file that existed before is still there
\* and an unlisted one has been deleted.
C7_Witness ==
    \E p \in Handlers :
        /\ pc[p] = "log_sync"
        /\ \E f \in manifest[p] : is_file(pre[p].tree, f) /\ is_file(live, f)
        /\ \E g \in DOMAIN pre[p].tree : is_file(pre[p].tree, g) /\ g \notin DOMAIN live

\* C8 (as the claim states it, granting it the top-level dot entries the
\* walker never lists and the delivered files the manifest itself omits):
\* when update returns True, no regular file outside the manifest is left
\* other than the log file, and every delivered file has the staged content.
C8_Claim ==
    \A p \in Handlers :
        pc[p] = "log_sync" =>
            /\ \A f \in DOMAIN live :
                  (is_file(live, f) /\ f \notin manifest[p])
                      => (f = <<LOGFILE>> \/ f[1] \in DotNames)
            /\ \A f \in DOMAIN body[p].tree :
                  (is_file(body[p].tree, f) /\ f \in manifest[p])
                      => (is_file(live, f) /\ live[f] = body[p].tree[f])

\* C10: when the merge runs, the staging directory holds no manifest file at
\* its root, and the live directory never receives one.
C10_ManifestStripped ==
    /\ \A p \in Handlers :
          pc[p] = "copy_directory" => <<MANIFEST>> \notin DOMAIN stage[p].tree
    /\ <<MANIFEST>> \notin DOMAIN live

\* A merge of an archive that carried a manifest has changed the live tree.
C10_Witness ==
    \E p \in Handlers :
        /\ pc[p] = "strip_files"
        /\ <<MANIFEST>> \in DOMAIN body[p].tree
        /\ live # pre[p].tree

\* C11: when the prune is through and no rmdir failed, no directory outside
\* the base directory's dot entries is left empty (so a directory whose files
\* were all removed as orphans is gone, and so is every directory above it
\* that this emptied); the live root directory exists in every state.
C11_EmptyDirsPruned ==
    /\ rootdir
    /\ \A p \in Handlers :
          (pc[p] = "log_sync" /\ ~warned[p]) =>
              \A d \in DOMAIN live :
                  (is_dir(live, d) /\ ~stem_startswith_dot(<<d[1]>>))
                      => iterdir(live, d) # {}

\* The chain a/d/y was all the live directory held; after the prune the root
\* is empty and still there.
C11_Witness ==
    \E p \in Handlers :
        /\ pc[p] = "log_sync" /\ ~warned[p] /\ ~errlog[p]
        /\ DOMAIN pre[p].tree = {<<"a">>, <<"a", "d">>, <<"a", "d", "y">>}
        /\ DOMAIN live = {}
        /\ rootdir

\* C12: no step of the prune (strip_files, strip_tree) removes or changes
\* the log file at the root of the live directory, and no manifest walk ever
\* lists it.
C12_LogFileKept ==
    [][\A p \in Handlers :
          /\ (pc[p] \in {"strip_files", "strip_tree"} /\ is_file(live, <<LOGFILE>>))
                => (is_file(live', <<LOGFILE>>) /\ live'[<<LOGFILE>>] = live[<<LOGFILE>>])
          /\ \A e \in walk'[p] : e.parts # <<LOGFILE>>]_vars

\* After two synchronisations (the second pruned a tree that held the log
\* file of the first) a walk has listed files and the log file is there.
C12_Witness ==
    \E p \in Handlers :
        /\ pc[p] = "walk_done" /\ walk[p] # {}
        /\ last_sync = 2
        /\ is_file(live, <<LOGFILE>>) /\ live[<<LOGFILE>>] = isoformat(2)

\* C13 (as the claim states it): a finished walk holds exactly one pair,
\* path segments and digest of the content, for every regular file of the
\* tree other than the log file at the root and what lies at or below a dot
\* entry of the top level; no file of a deeper level is left out and no
\* directory is listed.
C13_Claim ==
    \A p \in Handlers :
        pc[p] = "walk_done" =>
            walk[p] = {[parts |-> f, sha256sum |-> sha256(live[f])] :
                          f \in {g \in DOMAIN live :
                                    /\ is_file(live, g)
                                    /\ g # <<LOGFILE>>
                                    /\ ~stem_startswith_dot(<<g[1]>>)}}

\* C14 (as the claim states it, for the delivered files the manifest lists:
\* the prune removes the others): when update returns True, every regular
\* file of the archive is a file of the live tree at the same path with the
\* staged content, and every directory of the archive that leads to such a
\* file is a directory of the live tree, whatever was at its path before.
C14_Claim ==
    \A p \in Handlers :
        pc[p] = "log_sync" =>
            \A f \in manifest[p] :
                is_file(body[p].tree, f) =>
                    /\ is_file(live, f) /\ live[f] = body[p].tree[f]
                    /\ \A d \in DOMAIN body[p].tree :
                          (IsUnder(f, d) /\ d # f) => is_dir(live, d)

\* C15: a step of the merge that handles a staged file, copied or denied,
\* leaves the update in the merge with every other entry still to be
\* visited: the file is either written with the staged content or, on
\* PermissionError, skipped with an error logged; and the merge, once its
\* loop is through, is followed by the prune whether or not a copy failed.
C15_CopyFailureSkipped ==
    [][\A p \in Handlers :
          pc[p] = "copy_directory" =>
              /\ \A e \in Pending(p) :
                    (is_file(stage[p].tree, e) /\ e \notin todo'[p]) =>
                        /\ pc'[p] = "copy_directory"
                        /\ stage'[p] = stage[p]
                        /\ todo'[p] = todo[p] \ {e}
                        /\ cur'[p] = cur[p]
                        /\ \/ live' = copy_file(live, stage[p].tree[e], e)
                           \/ live' = live /\ errlog'[p]
              /\ (Pending(p) = {} /\ cur[p] = Root /\ pc'[p] # pc[p])
                    => pc'[p] = "strip_files"]_vars

\* The prune has started after a merge in which the copy of one delivered
\* file was denied and another delivered file was written.
C15_Witness ==
    \E p \in Handlers :
        /\ pc[p] = "strip_files" /\ errlog[p]
        /\ is_file(body[p].tree, <<"a">>) /\ <<"a">> \notin DOMAIN live
        /\ is_file(body[p].tree, <<"b">>) /\ <<"b">> \notin DOMAIN pre[p].tree
        /\ is_file(live, <<"b">>) /\ live[<<"b">>] = body[p].tree[<<"b">>]

\* C16: an update with the body of the update before it, which returned
\* True without a denied operation, returns True as well unless an operation
\* of its own is denied, and when it returns with none denied it has left
\* the live tree (the log file, which update never touches, included) and
\* the manifest walked from it as it found them.
C16_Idempotent ==
    \A p \in Handlers :
        (body[p].kind # "none" /\ prev.body = body[p] /\ prev.clean) =>
            /\ (pc[p] \in {"extract_failed", "send_500", "raised"}
                    /\ last_sync = pre[p].last_sync) => errlog[p]
            /\ (pc[p] = "log_sync" /\ ~errlog[p] /\ ~warned[p]) =>
                    /\ live = pre[p].tree
                    /\ gen_manifest(live) = gen_manifest(pre[p].tree)

\* The second of two equal updates has returned True; the first had
\* replaced a live file by a directory, written a file and pruned another.
C16_Witness ==
    \E p \in Handlers :
        /\ pc[p] = "log_sync" /\ ~warned[p] /\ ~errlog[p]
        /\ prev.body = body[p] /\ prev.clean
        /\ is_dir(body[p].tree, <<"a">>) /\ is_file(body[p].tree, <<"b">>)
        /\ manifest[p] = {<<"a", "x">>, <<"b">>}
        /\ is_file(live, <<"a", "x">>) /\ is_file(live, <<"b">>)
        /\ is_file(live, <<LOGFILE>>) /\ live[<<LOGFILE>>] = isoformat(1)

\* C17: when the merge of a staged tree into a live directory that was empty
\* is through and no operation was denied, the walk of the live directory
\* yields the same set of pairs as the walk of the staged tree.
C17_RoundTrip ==
    \A p \in Handlers :
        (/\ pc[p] = "copy_directory" /\ cur[p] = Root /\ todo[p] = {}
         /\ DOMAIN pre[p].tree = {} /\ ~errlog[p])
            => gen_manifest(live) = gen_manifest(stage[p].tree)

\* The staged tree a/x, b has been merged into the empty live directory.
C17_Witness ==
    \E p \in Handlers :
        /\ pc[p] = "copy_directory" /\ cur[p] = Root /\ todo[p] = {}
        /\ DOMAIN pre[p].tree = {} /\ ~errlog[p]
        /\ DOMAIN stage[p].tree = {<<"a">>, <<"a", "x">>, <<"b">>}
        /\ Cardinality(gen_manifest(live)) = 2

\* The archive of the scenario: the file a/x ("sub/file.txt") and a manifest
\* with the one item [["a", "x"], digest].
ScenarioArchive ==
    [kind |-> "ok",
     tree |-> (<<"a">> :> DIR) @@ (<<"a", "x">> :> NewData) @@ (<<MANIFEST>> :> Text(2))]

\* C18 (as the claim states it): the POST of the scenario's archive to an
\* empty live directory, nothing being denied, is answered 200; and the walk
\* of a GET /manifest over the live directory that holds just that file and
\* the log file yields the one pair for a/x, last_sync being set.
C18_Claim ==
    \A p \in Handlers :
        /\ (/\ body[p] = ScenarioArchive /\ DOMAIN pre[p].tree = {}
            /\ ~errlog[p] /\ last_sync = pre[p].last_sync
            /\ pc[p] \in {"exit", "raised"})
               => resp[p] = 200
        /\ (/\ pc[p] = "walk_done"
            /\ {f \in DOMAIN live : is_file(live, f)} = {<<"a", "x">>, <<LOGFILE>>}
            /\ live[<<"a", "x">>] = NewData)
               => /\ walk[p] = {[parts |-> <<"a", "x">>, sha256sum |-> sha256(NewData)]}
                  /\ last_sync > 0

\* C19: a PUT is answered 406 when its body is not valid JSON, 400 when the
\* JSON carries no command name, 400 when the name is not in the dispatch
\* table and 400 when the function rejects the arguments; the function is
\* called only when all these checks pass, and then the payload, the content
\* type and the status of the Response it returns are what is sent.
C19_Claim ==
    \A p \in Handlers :
        (pc[p] = "end" /\ req[p].command = "PUT") =>
            LET b == req[p].put
                named == b.kind = "dict" /\ b.command # None
                response == invoked[p].response
            IN  /\ b.kind = "malformed" => (resp[p] = 406 /\ ~invoked[p].called)
                /\ (b.kind \in {"list", "dict"} /\ ~named) =>
                       (resp[p] = 400 /\ ~invoked[p].called)
                /\ (named /\ b.command \notin COMMANDS) =>
                       (resp[p] = 400 /\ ~invoked[p].called)
                /\ (named /\ b.command \in COMMANDS /\ b.args = "unexpected") =>
                       (resp[p] = 400 /\ ~invoked[p].called)
                /\ (named /\ b.command \in COMMANDS /\ b.args = "fits") =>
                       /\ invoked[p].called
                       /\ response.raised = "TypeError" => resp[p] = 400
                       /\ response.raised = None =>
                              /\ resp[p] = response.status_code
                              /\ content[p].content_type = response.content_type
                              /\ content[p].payload.text = response.payload.text

\* C20: a request whose method and path are none of GET /, GET /manifest,
\* POST / and PUT / is answered 404 and changes neither the lock nor the live
\* tree (the log file is part of it) nor the last-sync timestamp.
C20_Claim ==
    [][LET IsRoute(r) ==
               <<r.command, r.path>> \in {<<"GET", "/">>, <<"GET", "/manifest">>,
                                           <<"POST", "/">>, <<"PUT", "/">>}
       IN  \A p \in Handlers :
               (pc[p] = "idle" /\ pc'[p] # "idle" /\ ~IsRoute(req'[p])) =>
                   (resp'[p] = 404 /\ UNCHANGED <<lock, live, last_sync>>)]_vars

\* C21: GET / is always answered 200 with a body that carries the last-sync
\* timestamp (null when no sync has succeeded), whether or not the lock is
\* held and whether or not sysinfo() is implemented, and it leaves the lock
\* alone.
C21_Claim ==
    [][\A p \in Handlers :
          (pc[p] = "idle" /\ req'[p].command = "GET" /\ req'[p].path = "/") =>
              /\ resp'[p] = 200
              /\ content'[p].payload.lastSync =
                     (IF last_sync = 0 THEN 0 ELSE isoformat(last_sync))
              /\ lock' = lock]_vars

\* C22: last_sync and the log file change only in a POST that is answered
\* 200: a step that changes either is a step of a POST inside its update, a
\* POST that leaves the lock with either changed has been answered 200, and
\* the log file is absent as long as last_sync is unset.
C22_Claim ==
    [][LET log(t) == IF <<LOGFILE>> \in DOMAIN t THEN t[<<LOGFILE>>] ELSE DIR - 1
       IN  /\ (last_sync' # last_sync \/ log(live') # log(live)) =>
                  \E q \in Handlers : pc[q] \in PostPcs /\ req[q].command = "POST"
           /\ \A p \in Handlers :
                  (/\ pc[p] \in {"exit", "raised"} /\ pc'[p] = "end"
                   /\ req[p].command = "POST"
                   /\ (last_sync # pre[p].last_sync \/ log(live) # log(pre[p].tree)))
                      => resp[p] = 200
           /\ last_sync' = 0 => <<LOGFILE>> \notin DOMAIN live']_vars

\* C23: every GET, POST and PUT produces exactly one response before its
\* handler returns to idle, also when the archive is corrupt, the manifest
\* is malformed or a step of the handler fails: a handler that has returned
\* has sent a response.
C23_Claim ==
    \A p \in Handlers : pc[p] = "end" => resp[p] # 0

\* C24: a file that get_files listed and that cannot be opened when it is to
\* be hashed is skipped: the walk never raises, and a GET /manifest that got
\* the lock is answered 200.
C24_Claim ==
    \A p \in Handlers :
        /\ pc[p] # "walk_raised"
        /\ (pc[p] = "end" /\ req[p].command = "GET" /\ req[p].path = "/manifest")
               => resp[p] \in {200, 503}

\* C25: when the function of a command raises, Response.__exit__ turns the
\* exception into a fixed status, 503 for UnderAdministration and
\* PackageManagerActive, 501 for NotImplementedError, 500 for
\* CalledProcessError, with a JSON message object as payload; when it does
\* not raise the status stays 200 and the payload is the one the function
\* set.
C25_ErrorsTranslated ==
    \A p \in Handlers :
        invoked[p].called =>
            LET typ == invoked[p].typ
                response == invoked[p].response
                message == /\ response.payload.type = "dict"
                           /\ response.content_type = "application/json"
                           /\ response.raised = None
            IN  /\ typ \in {"UnderAdministration", "PackageManagerActive"} =>
                       (response.status_code = 503 /\ message)
                /\ typ = "NotImplementedError" =>
                       (response.status_code = 501 /\ message)
                /\ typ = "CalledProcessError" =>
                       (response.status_code = 500 /\ message)
                /\ typ = None =>
                       /\ response.status_code = 200
                       /\ response.payload =
                              (IF req[p].put.command = "reboot"
                               THEN Payload("str", "System is rebooting.", 0)
                               ELSE Payload("bytes", "screenshot", 0))

\* A reboot was refused because the system is under administration, and the
\* PUT has been answered 503.
C25_Witness ==
    \E p \in Handlers :
        /\ invoked[p].called /\ invoked[p].typ = "UnderAdministration"
        /\ req[p].put.command = "reboot"
        /\ invoked[p].response.status_code = 503 /\ resp[p] = 503

\* C26: copy_file(src, dst, size, chunk_size) with size >= 0 and
\* chunk_size >= 1 returns, after ceil(size / chunk_size) reads; no read
\* requests more than chunk_size bytes, the requests sum to size, and dst
\* holds size bytes when src supplied every byte requested.
C26_CopyFile ==
    /\ [](/\ \A i \in DOMAIN cf.reads : cf.reads[i] \in 1..cf.chunk_size
          /\ requested(cf.reads) + cf.size = cf.total
          /\ cf.pc = "return" =>
                 /\ Len(cf.reads) = (cf.total + cf.chunk_size - 1) \div cf.chunk_size
                 /\ requested(cf.reads) = cf.total
                 /\ cf.src + cf.dst >= cf.total => cf.dst = cf.total)
    /\ <>(cf.pc = "return")

\* Five bytes were copied in chunks of two: three reads, the last one of a
\* single byte.
C26_Witness ==
    /\ cf.pc = "return" /\ cf.total = 5 /\ cf.chunk_size = 2
    /\ cf.reads = <<2, 2, 1>> /\ cf.dst = 5

\* C27: within one POST the steps come strictly in this order: acquire the
\* lock, read the body into a temporary file, extract into staging, read
\* and delete the staged manifest, merge, destroy staging, prune orphan
\* files, prune empty directories, record the timestamp, send the response,
\* release the lock.  Nothing of the body is read before the lock is
\* acquired, and the response is sent while the lock is still held.
C27_StepOrder ==
    [][LET order == <<"read_body", "mkdtemp", "tar_open", "extractall", "load_manifest",
                      "copy_directory", "strip_files", "strip_tree", "log_sync",
                      "send_200", "exit", "end">>
           rank(at) == CHOOSE i \in DOMAIN order : order[i] = at
           steps == {order[i] : i \in DOMAIN order}
           inside == steps \ {"end"}
       IN  \A p \in Handlers :
               req'[p].command = "POST" =>
                   \* the lock is acquired first, nothing being read yet
                   /\ (pc[p] = "idle" /\ pc'[p] # "end") =>
                          (pc'[p] = "read_body" /\ ~lock /\ lock' /\ body'[p] = NoArchive)
                   \* then one step follows the other
                   /\ (pc[p] \in steps /\ pc'[p] \in steps /\ pc'[p] # pc[p]) =>
                          rank(pc'[p]) = rank(pc[p]) + 1
                   \* the body is read in its step only
                   /\ (body[p] = NoArchive /\ body'[p] # NoArchive) => pc[p] = "read_body"
                   \* staging exists from the extraction to the end of the merge,
                   \* and the manifest has left it when the merge starts
                   /\ pc'[p] \in {"strip_files", "strip_tree", "log_sync", "send_200", "exit"}
                          => ~stage'[p].exists
                   /\ pc'[p] = "copy_directory" =>
                          (stage'[p].exists /\ <<MANIFEST>> \notin DOMAIN stage'[p].tree)
                   \* the live tree changes in the merge and the prunes (and by
                   \* the log file), the timestamp when it is recorded
                   /\ (pc[p] \in inside /\ live' # live) =>
                          pc[p] \in {"copy_directory", "strip_files", "strip_tree", "log_sync"}
                   /\ (pc[p] \in inside /\ last_sync' # last_sync) => pc[p] = "log_sync"
                   \* the response is sent with the lock held, which is released
                   \* afterwards
                   /\ pc[p] \in inside => lock
                   /\ (resp'[p] = 200 /\ resp[p] # 200) =>
                          (pc[p] = "send_200" /\ lock /\ lock')
                   /\ (pc[p] \in inside /\ lock /\ ~lock') =>
                          (pc[p] = "exit" /\ resp[p] # 0)]_vars

\* A POST has run through all its steps: the response is sent, the lock is
\* still held.
C27_Witness ==
    \E p \in Handlers :
        /\ pc[p] = "exit" /\ resp[p] = 200 /\ lock
        /\ last_sync > pre[p].last_sync
        /\ live # pre[p].tree

\* C28: a PUT and a GET / neither acquire nor release the lock and change
\* neither the live tree (the log file is part of it) nor last_sync; a GET
\* /manifest changes the lock only, taking it when it is free and giving it
\* back when the walk is over; only a POST changes the live directory.
C28_SideEffects ==
    [][\A p \in Handlers :
          /\ (pc'[p] # pc[p] /\ pc'[p] # "idle"
               /\ (req'[p].command = "PUT" \/ (req'[p].command = "GET" /\ req'[p].path = "/")))
                 => UNCHANGED <<lock, live, last_sync>>
          /\ (pc'[p] # pc[p] /\ pc'[p] # "idle"
               /\ req'[p].command = "GET" /\ req'[p].path = "/manifest")
                 => /\ UNCHANGED <<live, last_sync>>
                    /\ lock' = IF pc'[p] = "gen_manifest" THEN TRUE
                               ELSE IF pc[p] \in {"walk_done", "walk_raised"} THEN FALSE
                               ELSE lock
                    /\ pc'[p] = "gen_manifest" => ~lock
          /\ (pc'[p] # pc[p] /\ pc'[p] = "idle") => UNCHANGED <<lock, live, last_sync>>
          /\ live' # live => \E q \in Handlers : req[q].command = "POST" /\ pc[q] \in PostPcs]_vars

\* A command was run by a PUT while a manifest walk held the lock, after a
\* synchronisation.
C28_Witness ==
    \E p, q \in Handlers :
        /\ pc[p] = "end" /\ req[p].command = "PUT" /\ invoked[p].called
        /\ pc[q] = "walk_done" /\ lock /\ last_sync > 0

\* C29: in the handler of server.py a POST or GET that arrives while the
\* lock is held does not wait for it: the one attempt fails and the request
\* is answered 503 at once.
C29_Claim ==
    [][\A p \in Handlers :
          (pc[p] = "idle" /\ pc'[p] # "idle" /\ lock) =>
              (pc'[p] = "end" /\ resp'[p] = 503)]_vars

\* C30: in the handler of server.py the lock a POST acquired is released
\* also when update_digsig_data raises: once no request is being handled
\* the lock is free.
C30_Claim ==
    (\A p \in Handlers : pc[p] \in {"idle", "end"}) => ~lock

\* C31: in the handler of server.py the whole manifest walk runs while the
\* lock is held: when the manifest property has released the lock, every
\* pair of the manifest has been produced.
C31_Claim ==
    \A p \in Handlers :
        (req[p].command = "GET" /\ pc[p] = "send_manifest") =>
            walk[p] = gen_manifest(live)

C38_Claim ==
    \A p \in Handlers :
        pc[p] = "log_sync" =>
            /\ \A path \in manifest[p] : is_file(live, path)
            /\ get_files(live, Root, TRUE) = manifest[p]

\* C39: whenever no POST is in flight, last_sync and the log file agree: a
\* POST that was answered 200 has set last_sync, and when last_sync is set
\* the log file holds exactly that timestamp.
C39_Claim ==
    (\A q \in Handlers : req[q].command = "POST" => pc[q] \in {"idle", "end"}) =>
        /\ \A p \in Handlers :
               (req[p].command = "POST" /\ pc[p] = "end" /\ resp[p] = 200) =>
                   last_sync # 0
        /\ last_sync # 0 =>
               /\ is_file(live, <<LOGFILE>>)
               /\ live[<<LOGFILE>>] = isoformat(last_sync)

\* C36: the reboot command is run only when, at the time of the check, no
\* administrative user has a session and the package manager is neither
\* locked nor running; otherwise no reboot is issued and the PUT is answered
\* 503, with the message of the administration check when both apply.
C36_RebootGuard ==
    \A p \in Handlers :
        (pc[p] = "end" /\ invoked[p].called /\ req[p].put.command = "reboot"
           /\ host.name = "posix" /\ host.loginctl = "ok") =>
            LET admin == host.sessions \cap ADMIN_USERS # {}
                active == host.db_lck \/ host.pacman
            IN  /\ host.issued <=> (~admin /\ ~active)
                /\ (admin \/ active) =>
                       /\ resp[p] = 503
                       /\ content[p].payload.text =
                              (IF admin THEN "UnderAdministration"
                               ELSE "PackageManagerActive")

\* A reboot was refused with 503 while an administrator had a session and
\* pacman was running.
C36_Witness ==
    \E p \in Handlers :
        /\ pc[p] = "end" /\ invoked[p].called /\ req[p].put.command = "reboot"
        /\ host.name = "posix" /\ host.loginctl = "ok"
        /\ "root" \in host.sessions /\ host.pacman /\ ~host.issued
        /\ resp[p] = 503

\* C32: LockFile.create is atomic: of two callers that call it while the
\* lock file is absent only one returns, the other raises Locked; the
\* server (back from create in start_sync) and a process running sync()
\* (inside its with LOCK_FILE block) never both hold the lock.
C32_Claim ==
    ~(/\ srv.pc = "sync_pending"
      /\ oneshot.state \in InSafeSync \cup {"finally"})

\* C33: in server mode at most one synchronisation thread is alive at any
\* time; a POST with the command sync is answered 202 only when it created
\* the lock file and started a thread, and 503 when create found the lock
\* file or sync_pending found a live thread; any other command is answered
\* 400; a request answered 503 or 400 has started no thread.
C33_OneSyncThread ==
    /\ Cardinality({i \in DOMAIN sync_thread : is_alive(sync_thread[i])}) <= 1
    /\ (srv.pc = "end" /\ srv.kind = "dict") =>
           /\ srv.command # "sync" => srv.status_code = 400
           /\ srv.command = "sync" => srv.status_code \in {202, 503}
           /\ srv.status_code = 202 <=> (srv.created /\ srv.started)
           /\ srv.status_code = 503 <=> (srv.command = "sync" /\ (~srv.created \/ srv.pending))
           /\ srv.status_code \in {503, 400} => ~srv.started
           /\ srv.started =>
                  /\ sync_thread # NoThread
                  /\ \A i \in 1..(Len(sync_thread) - 1) : ~is_alive(sync_thread[i])

\* A sync request was answered 503 because the thread of an earlier one was
\* still alive, although the lock file was gone.
C33_Witness ==
    /\ srv.pc = "end" /\ srv.status_code = 503
    /\ srv.created /\ srv.pending
    /\ Len(sync_thread) = 1 /\ is_alive(sync_thread[1])

\* C34: the lock file made when a sync was accepted is removed when its
\* thread ends, whether safe_sync returned True or False or raised: while
\* the server waits for a request and no thread is alive there is no lock
\* file, and a sync request made then is accepted (202, a new thread).
C34_LockFileRemoved ==
    [][LET idle == \A i \in DOMAIN sync_thread : ~is_alive(sync_thread[i])
       IN  /\ (srv.pc = "idle" /\ idle) => ~lockfile
           /\ (idle /\ srv.pc = "create") => srv'.pc # "end"
           /\ (idle /\ srv.pc = "sync_pending" /\ srv'.pc = "end") =>
                  (srv'.status_code = 202 /\ Len(sync_thread') = Len(sync_thread) + 1)]_vars

\* The thread of a first sync raised and is dead, and a second sync has
\* been accepted.
C34_Witness ==
    /\ Len(sync_thread) = 2
    /\ sync_thread[1].state = "dead" /\ sync_thread[1].result = "raised"
    /\ srv.pc = "end" /\ srv.status_code = 202 /\ lockfile

\* C35: read_retry retries a read that fails with IncompleteRead at most
\* max_retries times: when it re-raises, response.read() has been attempted
\* exactly 1 + max_retries times, and a call that returned data made no
\* attempt after the successful one.
C35_Claim ==
    \A i \in DOMAIN sync_thread :
        LET t == sync_thread[i]
        IN  /\ t.error = "IncompleteRead" => t.attempts = 1 + t.max_retries
            /\ t.state = "returned" => t.attempts = t.retries + 1
            /\ t.retries <= t.max_retries

====
